---- MODULE Spec2Model ----
(***************************************************************************)
(* SMS delivery, scheduling and inbound-automation engine of AOC-SMS-Admin.*)
(* The module models the persistent tables, the scheduler tick, the        *)
(* outbound dispatch job, the suppression engine and the inbound engine,   *)
(* each translated from the Python sources under src/app.                  *)
(*                                                                         *)
(* Text (phone numbers, provider error text, inbound bodies, keywords) is  *)
(* a sequence of one-character strings, so that the character-level        *)
(* functions of the code (normalize_phone, classify_failure,               *)
(* normalize_keyword) are computed rather than assumed.  The empty         *)
(* sequence stands for both '' and None: the code only tests such values   *)
(* for truthiness.                                                         *)
(***************************************************************************)
EXTENDS Integers, Sequences, FiniteSets, TLC

(***************************************************************************)
(* Text helpers                                                            *)
(***************************************************************************)
Digits == {"0","1","2","3","4","5","6","7","8","9"}

UpperLetters == <<"A","B","C","D","E","F","G","H","I","J","K","L","M","N","O","P","Q","R","S","T","U","V","W","X","Y","Z">>

LowerLetters == <<"a","b","c","d","e","f","g","h","i","j","k","l","m","n","o","p","q","r","s","t","u","v","w","x","y","z">>

\* str.lower() on one character
LowerChar(c) ==
    IF \E i \in 1..Len(UpperLetters) : UpperLetters[i] = c
    THEN LowerLetters[CHOOSE i \in 1..Len(UpperLetters) : UpperLetters[i] = c]
    ELSE c

\* str.upper() on one character
UpperChar(c) ==
    IF \E i \in 1..Len(LowerLetters) : LowerLetters[i] = c
    THEN UpperLetters[CHOOSE i \in 1..Len(LowerLetters) : LowerLetters[i] = c]
    ELSE c

\* str.lower()
LowerText(s) == [i \in 1..Len(s) |-> LowerChar(s[i])]

\* the Python test "pattern in message"
Contains(pattern, message) ==
    \E i \in 0..(Len(message) - Len(pattern)) :
        SubSeq(message, i + 1, i + Len(pattern)) = pattern

\* re.sub(r'[^\d+]', '', s): keep digits and '+'
RECURSIVE KeepDigitsPlus(_)
KeepDigitsPlus(s) ==
    IF s = <<>> THEN <<>>
    ELSE IF Head(s) \in Digits \cup {"+"}
         THEN <<Head(s)>> \o KeepDigitsPlus(Tail(s))
         ELSE KeepDigitsPlus(Tail(s))

\* str.strip() for the blank character
RECURSIVE StripLeft(_)
StripLeft(s) == IF s # <<>> /\ Head(s) = " " THEN StripLeft(Tail(s)) ELSE s

RECURSIVE StripRight(_)
StripRight(s) ==
    IF s # <<>> /\ s[Len(s)] = " " THEN StripRight(SubSeq(s, 1, Len(s) - 1)) ELSE s

Strip(s) == StripRight(StripLeft(s))

(***************************************************************************)
(* The strings of the model.  State holds a text as a TLA+ string; Chars   *)
(* gives its characters, on which the code's text functions are computed,  *)
(* and Str reads a computed character sequence back as a string.           *)
(***************************************************************************)
Chars ==
    ("" :> <<>>) @@
    ("+17205550100" :> <<"+","1","7","2","0","5","5","5","0","1","0","0">>) @@
    ("+17205550101" :> <<"+","1","7","2","0","5","5","5","0","1","0","1">>) @@
    ("+17205550102" :> <<"+","1","7","2","0","5","5","5","0","1","0","2">>) @@
    ("7205550100" :> <<"7","2","0","5","5","5","0","1","0","0">>) @@
    ("12" :> <<"1","2">>) @@
    ("+12" :> <<"+","1","2">>) @@
    ("Too many requests" :> <<"T","o","o"," ","m","a","n","y"," ","r","e","q","u","e","s","t","s">>) @@
    ("Connection reset by peer" :> <<"C","o","n","n","e","c","t","i","o","n"," ","r","e","s","e","t"," ","b","y"," ","p","e","e","r">>) @@
    (" stop" :> <<" ","s","t","o","p">>) @@
    ("stop" :> <<"s","t","o","p">>) @@
    ("STOP" :> <<"S","T","O","P">>) @@
    ("CANCEL" :> <<"C","A","N","C","E","L">>) @@
    ("quit" :> <<"q","u","i","t">>) @@
    ("QUIT" :> <<"Q","U","I","T">>) @@
    ("start" :> <<"s","t","a","r","t">>) @@
    ("START" :> <<"S","T","A","R","T">>) @@
    ("UNSTOP" :> <<"U","N","S","T","O","P">>) @@
    ("yes" :> <<"y","e","s">>) @@
    ("YES" :> <<"Y","E","S">>) @@
    ("JOIN" :> <<"J","O","I","N">>) @@
    ("poll  now" :> <<"p","o","l","l"," "," ","n","o","w">>) @@
    ("POLL NOW" :> <<"P","O","L","L"," ","N","O","W">>) @@
    ("POLL" :> <<"P","O","L","L">>) @@
    ("hours" :> <<"h","o","u","r","s">>) @@
    ("HOURS" :> <<"H","O","U","R","S">>) @@
    ("Blue" :> <<"B","l","u","e">>) @@
    ("BLUE" :> <<"B","L","U","E">>) @@
    ("User has unsubscribed" :> <<"U","s","e","r"," ","h","a","s"," ","u","n","s","u","b","s","c","r","i","b","e","d">>) @@
    ("Reply STOP" :> <<"R","e","p","l","y"," ","S","T","O","P">>) @@
    ("Invalid number" :> <<"I","n","v","a","l","i","d"," ","n","u","m","b","e","r">>) @@
    ("Number is not valid" :> <<"N","u","m","b","e","r"," ","i","s"," ","n","o","t"," ","v","a","l","i","d">>) @@
    ("Service unavailable: 503" :> <<"S","e","r","v","i","c","e"," ","u","n","a","v","a","i","l","a","b","l","e",":"," ","5","0","3">>)

Str(cs) == CHOOSE s \in DOMAIN Chars : Chars[s] = cs

(***************************************************************************)
(* utils.py: phone normalisation and validation                            *)
(***************************************************************************)
normalize_phone_always_prefixed(phone) ==
    IF phone = <<>> THEN <<>>
    ELSE LET cleaned == KeepDigitsPlus(Strip(phone)) IN
         IF cleaned # <<>> /\ Head(cleaned) = "1" /\ Len(cleaned) = 11
         THEN <<"+">> \o cleaned
         ELSE IF Len(cleaned) = 10 THEN <<"+", "1">> \o cleaned
         ELSE <<"+">> \o cleaned

normalize_phone(phone) ==
    IF phone = <<>> THEN <<>>
    ELSE LET cleaned == KeepDigitsPlus(Strip(phone)) IN
         IF cleaned # <<>> /\ Head(cleaned) = "+" THEN cleaned
         ELSE IF cleaned # <<>> /\ Head(cleaned) = "1" /\ Len(cleaned) = 11
              THEN <<"+">> \o cleaned
         ELSE IF Len(cleaned) = 10 THEN <<"+", "1">> \o cleaned
         ELSE <<"+">> \o cleaned

\* re.match(r'^\+\d{7,15}$', normalize_phone(phone))
validate_phone(phone) ==
    IF phone = <<>> THEN FALSE
    ELSE LET normalized == normalize_phone(phone) IN
         /\ Len(normalized) >= 8
         /\ Len(normalized) <= 16
         /\ Head(normalized) = "+"
         /\ \A i \in 2..Len(normalized) : normalized[i] \in Digits

(***************************************************************************)
(* suppression_service.py: failure classification                          *)
(***************************************************************************)
opt_out_patterns ==
    << <<"u","n","s","u","b","s","c","r","i","b","e","d">>, <<"o","p","t","e","d"," ","o","u","t">>, <<"o","p","t","-","o","u","t">>,
       <<"o","p","t"," ","o","u","t">>, <<"s","t","o","p">>, <<"r","e","p","l","y"," ","s","t","o","p">>,
       <<"u","n","s","u","b","s","c","r","i","b","e">>, <<"c","a","n","c","e","l">>, <<"q","u","i","t">>,
       <<"e","n","d">>, <<"b","l","o","c","k","e","d">>, <<"r","e","c","i","p","i","e","n","t"," ","h","a","s"," ","o","p","t","e","d"," ","o","u","t">>,
       <<"o","p","t","-","o","u","t">>, <<"2","1","6","1","0">>, <<"3","0","0","0","4">> >>

hard_fail_patterns ==
    << <<"i","n","v","a","l","i","d">>, <<"n","o","t"," ","a"," ","v","a","l","i","d">>, <<"d","o","e","s"," ","n","o","t"," ","e","x","i","s","t">>,
       <<"u","n","k","n","o","w","n"," ","s","u","b","s","c","r","i","b","e","r">>, <<"u","n","r","e","a","c","h","a","b","l","e">>, <<"l","a","n","d","l","i","n","e">>,
       <<"n","o","t"," ","a"," ","m","o","b","i","l","e">>, <<"n","o"," ","r","o","u","t","e">>, <<"u","n","a","s","s","i","g","n","e","d">>,
       <<"n","u","m","b","e","r"," ","i","s"," ","n","o","t"," ","v","a","l","i","d">>, <<"p","h","o","n","e"," ","n","u","m","b","e","r"," ","i","s"," ","n","o","t">>, <<"c","a","r","r","i","e","r"," ","v","i","o","l","a","t","i","o","n">>,
       <<"3","0","0","0","3">>, <<"3","0","0","0","5">>, <<"3","0","0","0","7">> >>

soft_fail_patterns ==
    << <<"t","e","m","p","o","r","a","r","i","l","y">>, <<"t","i","m","e","o","u","t">>, <<"t","i","m","e","d"," ","o","u","t">>,
       <<"r","a","t","e"," ","l","i","m","i","t">>, <<"t","h","r","o","t","t","l","e">>, <<"t","o","o"," ","m","a","n","y"," ","r","e","q","u","e","s","t","s">>,
       <<"n","e","t","w","o","r","k">>, <<"c","o","n","n","e","c","t","i","o","n">>, <<"s","e","r","v","i","c","e"," ","u","n","a","v","a","i","l","a","b","l","e">>,
       <<"s","e","r","v","e","r"," ","e","r","r","o","r">>, <<"u","n","a","v","a","i","l","a","b","l","e">>, <<"g","a","t","e","w","a","y">>,
       <<"4","2","9">>, <<"5","0","0">>, <<"5","0","2">>,
       <<"5","0","3">>, <<"5","0","4">> >>

AnyPattern(patterns, message) ==
    \E k \in 1..Len(patterns) : Contains(patterns[k], message)

\* lines 72-80 with the first two tests exchanged
classify_failure_hard_first(error_text) ==
    IF error_text = <<>> THEN "soft_fail"
    ELSE LET message == LowerText(error_text) IN
         IF AnyPattern(hard_fail_patterns, message) THEN "hard_fail"
         ELSE IF AnyPattern(opt_out_patterns, message) THEN "opt_out"
         ELSE "soft_fail"

classify_failure(error_text) ==
    IF error_text = <<>> THEN "soft_fail"
    ELSE LET message == LowerText(error_text) IN
         IF AnyPattern(opt_out_patterns, message) THEN "opt_out"
         ELSE IF AnyPattern(hard_fail_patterns, message) THEN "hard_fail"
         ELSE IF AnyPattern(soft_fail_patterns, message) THEN "soft_fail"
         ELSE "soft_fail"

(***************************************************************************)
(* State                                                                   *)
(***************************************************************************)
VARIABLES
    unsubscribed,         \* table unsubscribed_contacts (UnsubscribedContact rows)
    suppressed,           \* table suppressed_contacts (SuppressedContact rows)
    community_members,    \* table community_members
    event_registrations,  \* table event_registrations
    pfd_call,             \* the latest process_failure_details call and its return
    config,               \* the application configuration (config.py, environment)
    message_logs,         \* table message_logs (MessageLog rows), indexed by id
    job,                  \* the queued send_bulk_job, its worker's locals and its outcome
    scheduled_messages,   \* table scheduled_messages (ScheduledMessage rows), by id
    workers,              \* the scheduler processes: position and locals of each tick
    clock,                \* utcnow(), in minutes
    bulk_sends,           \* the provider bulk sends made by scheduler ticks, in order
    cancel_request,       \* the latest scheduled_cancel request and what it found
    inbox_threads,        \* table inbox_threads
    inbox_messages,       \* table inbox_messages, in insertion order
    survey_sessions,      \* table survey_sessions, indexed by id
    survey_responses,     \* table survey_responses, in insertion order
    automation,           \* survey flows and keyword rules, with their counters
    inbound,              \* the latest process_inbound_sms call and its return
    fn_call               \* the latest call of a function applied on its own, and its return

db_tables == <<unsubscribed, suppressed, community_members, event_registrations>>
supp_vars == <<unsubscribed, suppressed, community_members, event_registrations, pfd_call>>
job_vars == <<message_logs, job>>
sched_vars == <<scheduled_messages, workers, clock, bulk_sends, cancel_request>>
inbox_vars == <<inbox_threads, inbox_messages, survey_sessions, survey_responses,
                automation, inbound>>

vars == <<supp_vars, config, job_vars, sched_vars, inbox_vars, fn_call>>

\* config.py: the settings the modelled operations read.  twilio_configured is
\* all([TWILIO_ACCOUNT_SID, TWILIO_AUTH_TOKEN, TWILIO_FROM_NUMBER]); max_lag is
\* SCHEDULED_MESSAGE_MAX_LAG in minutes
Config(twilio_configured, admin_test_phone, max_lag, auto_reply_enabled) ==
    [twilio_configured |-> twilio_configured, admin_test_phone |-> admin_test_phone,
     max_lag |-> max_lag, auto_reply_enabled |-> auto_reply_enabled]

\* the scheduler processes that may run a tick at the same time
Workers == {"w1", "w2"}

\* the parts of the system a specification does not exercise, at rest
NoJob == [pc |-> "none"]
NoCancelRequest == [scheduled_id |-> 0, status |-> "none"]
IdleWorker == [pc |-> "idle"]
NoAutomation == [survey_flows |-> <<>>, keyword_rules |-> <<>>]
NoInbound ==
    [n |-> 0, message_sid |-> 0, status |-> "none", reason |-> "", thread_id |-> 0,
     phone |-> "", replies |-> <<>>]

NoFnCall == [fn |-> "none"]

IdleSupp ==
    /\ unsubscribed = {} /\ suppressed = {}
    /\ community_members = {} /\ event_registrations = {}
    /\ pfd_call = [n |-> 0]
IdleDispatch == message_logs = <<>> /\ job = NoJob
IdleScheduler ==
    /\ scheduled_messages = <<>>
    /\ workers = [w \in Workers |-> IdleWorker]
    /\ clock = 0
    /\ bulk_sends = <<>>
    /\ cancel_request = NoCancelRequest
IdleInbox ==
    /\ inbox_threads = {} /\ inbox_messages = <<>>
    /\ survey_sessions = <<>> /\ survey_responses = <<>>
    /\ automation = NoAutomation /\ inbound = NoInbound

(***************************************************************************)
(* Fixtures: the phone numbers, names and provider error texts the         *)
(* operations are exercised with                                           *)
(***************************************************************************)
Phone1 == "+17205550100"
Phone2 == "+17205550101"
Phone3 == "+17205550102"
\* Phone1 as a bare ten-digit number, and a number too short to validate
RawPhone1 == "7205550100"
ShortPhone == "12"

Phones == {Phone1, Phone2, Phone3}

ErrUnsubscribed == "User has unsubscribed"
ErrReplyStop == "Reply STOP"
ErrInvalidNumber == "Invalid number"
ErrNotValid == "Number is not valid"
ErrUnavailable == "Service unavailable: 503"
ErrTooManyRequests == "Too many requests"
ErrConnection == "Connection reset by peer"

\* the text functions on strings, tabulated once over the strings of the model
PhoneStrings == {"", Phone1, Phone2, Phone3, RawPhone1, ShortPhone, "+12"}
ErrorStrings == {"", ErrUnsubscribed, ErrReplyStop, ErrInvalidNumber, ErrNotValid,
                 ErrUnavailable, ErrTooManyRequests, ErrConnection}

NormalizedPhone == [s \in PhoneStrings |-> Str(normalize_phone(Chars[s]))]
ValidPhone == [s \in PhoneStrings |-> validate_phone(Chars[s])]
FailureClass == [s \in ErrorStrings |-> classify_failure(Chars[s])]

\* bounds of the suppression-engine specification
MaxDetails == 1
MaxCalls == 2

EventIds == {1, 2}

(***************************************************************************)
(* Table helpers                                                           *)
(***************************************************************************)
MaxOf(S) == CHOOSE x \in S : \A y \in S : y <= x

\* the autoincrement primary key of the next inserted row
NextId(rows) == IF rows = {} THEN 1 ELSE MaxOf({r.id : r \in rows}) + 1

\* Query.first(): the row with the lowest id
FirstRow(rows) == CHOOSE r \in rows : \A q \in rows : r.id <= q.id

(***************************************************************************)
(* suppression_service.py: process_failure_details                         *)
(*                                                                         *)
(* A result record ("detail") is [phone, name, success, status, error];    *)
(* success is "True", "False" or "None" (key absent), status is "None"     *)
(* when the key is absent.  The alternative keys 'to', 'recipient' and     *)
(* 'message' are written by no producer in the repository and are absent.  *)
(***************************************************************************)
get_phone(entry) == entry.phone

pfd_zero_counts(details) ==
    [total |-> Len(details), failed |-> 0, opt_out |-> 0, hard_fail |-> 0,
     soft_fail |-> 0, unsubscribed_upserts |-> 0, suppressed_upserts |-> 0,
     community_member_deletes |-> 0, event_registration_deletes |-> 0,
     skipped_no_phone |-> 0]

\* lines 122-139: upsert of the UnsubscribedContact keyed by phone
pfd_upsert_unsubscribed_dup(rows, detail, normalized_phone, error_text) ==
    rows \cup {[id |-> NextId(rows), name |-> detail.name, phone |-> normalized_phone,
                reason |-> error_text, source |-> "message_failure"]}

pfd_upsert_unsubscribed(rows, detail, normalized_phone, error_text) ==
    LET matches == {r \in rows : r.phone = normalized_phone} IN
    IF matches # {}
    THEN LET existing == FirstRow(matches) IN
         (rows \ {existing}) \cup
         {[existing EXCEPT
             !.source = "message_failure",
             !.reason = IF error_text # "" THEN error_text ELSE @,
             !.name = IF detail.name # "" /\ @ = "" THEN detail.name ELSE @]}
    ELSE rows \cup {[id |-> NextId(rows), name |-> detail.name,
                     phone |-> normalized_phone, reason |-> error_text,
                     source |-> "message_failure"]}

\* lines 140-160: upsert of the SuppressedContact keyed by phone
pfd_upsert_suppressed(rows, normalized_phone, error_text, category, source_message_log_id) ==
    LET matches == {r \in rows : r.phone = normalized_phone} IN
    IF matches # {}
    THEN LET existing == FirstRow(matches) IN
         (rows \ {existing}) \cup
         {[existing EXCEPT
             !.reason = error_text,
             !.category = category,
             !.source = "message_failure",
             !.source_type = "message_log",
             !.source_message_log_id = source_message_log_id]}
    ELSE rows \cup {[id |-> NextId(rows), phone |-> normalized_phone,
                     reason |-> error_text, category |-> category,
                     source |-> "message_failure", source_type |-> "message_log",
                     source_message_log_id |-> source_message_log_id]}

\* lines 103-161: one iteration of the loop over details
pfd_step(st, detail, source_message_log_id) ==
    LET success == detail.success
        status == detail.status
        error_text == detail.error
    IN
    IF success = "True" THEN st
    ELSE IF success = "None" /\ error_text = "" /\ status \notin {"failed", "undelivered"}
    THEN st
    ELSE
      LET normalized_phone == NormalizedPhone[get_phone(detail)]
          failed == [st EXCEPT !.counts.failed = @ + 1]
      IN
      IF normalized_phone = ""
      THEN [failed EXCEPT !.counts.skipped_no_phone = @ + 1]
      ELSE
        LET category == FailureClass[error_text]
            counted == [failed EXCEPT !.counts[category] = @ + 1]
        IN
        IF category = "opt_out"
        THEN [counted EXCEPT
                !.unsubscribed = pfd_upsert_unsubscribed(@, detail, normalized_phone, error_text),
                !.counts.unsubscribed_upserts = @ + 1]
        ELSE IF category = "hard_fail"
        THEN [counted EXCEPT
                !.suppressed = pfd_upsert_suppressed(@, normalized_phone, error_text,
                                                     category, source_message_log_id),
                !.counts.suppressed_upserts = @ + 1,
                !.suppressed_phones = @ \cup {normalized_phone}]
        ELSE counted

RECURSIVE pfd_loop(_, _, _)
pfd_loop(st, details, source_message_log_id) ==
    IF details = <<>> THEN st
    ELSE pfd_loop(pfd_step(st, Head(details), source_message_log_id),
                  Tail(details), source_message_log_id)

\* lines 163-169: removal of the hard-failed phones from the recipient tables
pfd_delete_recipients_community_only(db, suppressed_phones) ==
    [db EXCEPT
       !.community_members = {m \in @ : m.phone \notin suppressed_phones}]

pfd_delete_recipients(db, suppressed_phones) ==
    IF suppressed_phones = {} THEN db
    ELSE [db EXCEPT
            !.community_members = {m \in @ : m.phone \notin suppressed_phones},
            !.event_registrations = {r \in @ : r.phone \notin suppressed_phones}]

\* db is [unsubscribed, suppressed, community_members, event_registrations];
\* the result is the tables after the transaction commits, and the counts
process_failure_details(details, source_message_log_id, db) ==
    LET st == pfd_loop([unsubscribed |-> db.unsubscribed,
                        suppressed |-> db.suppressed,
                        suppressed_phones |-> {},
                        counts |-> pfd_zero_counts(details)],
                       details, source_message_log_id)
        upserted == [db EXCEPT !.unsubscribed = st.unsubscribed,
                               !.suppressed = st.suppressed]
        after == pfd_delete_recipients(upserted, st.suppressed_phones)
    IN [db |-> after,
        counts |-> [st.counts EXCEPT
            !.community_member_deletes =
                Cardinality(db.community_members) - Cardinality(after.community_members),
            !.event_registration_deletes =
                Cardinality(db.event_registrations) - Cardinality(after.event_registrations)]]

\* line 100: `with db.session.begin()` rolls back what its block wrote when the
\* block raises; db is the tables at the begin, written the tables as written
pfd_rollback_keeps_upserts(db, written) ==
    [db EXCEPT !.unsubscribed = written.unsubscribed, !.suppressed = written.suppressed]

pfd_rollback(db, written) == db

\* the call raising part-way: after `done` of the details (an entry that is no
\* dictionary, a failing query), in one of the deletions, or in the commit
process_failure_details_raising(details, source_message_log_id, db, done, deleted) ==
    LET st == pfd_loop([unsubscribed |-> db.unsubscribed,
                        suppressed |-> db.suppressed,
                        suppressed_phones |-> {},
                        counts |-> pfd_zero_counts(details)],
                       SubSeq(details, 1, done), source_message_log_id)
        upserted == [db EXCEPT !.unsubscribed = st.unsubscribed,
                               !.suppressed = st.suppressed]
        written ==
            IF deleted = "none" \/ st.suppressed_phones = {} THEN upserted
            ELSE IF deleted = "community_members"
            THEN [upserted EXCEPT !.community_members =
                                      {m \in @ : m.phone \notin st.suppressed_phones}]
            ELSE pfd_delete_recipients(upserted, st.suppressed_phones)
    IN pfd_rollback(db, written)

CurrentDb ==
    [unsubscribed |-> unsubscribed, suppressed |-> suppressed,
     community_members |-> community_members,
     event_registrations |-> event_registrations]

SetDb(db) ==
    /\ unsubscribed' = db.unsubscribed
    /\ suppressed' = db.suppressed
    /\ community_members' = db.community_members
    /\ event_registrations' = db.event_registrations

(***************************************************************************)
(* Result records handed to the suppression engine                         *)
(***************************************************************************)
Detail(phone, name, success, error) ==
    [phone |-> phone, name |-> name, success |-> success, status |-> "None",
     error |-> error]

\* tasks.py _append_error_detail: the synthetic entry {'error': error_message}
ErrorDetail(error_message) ==
    [phone |-> "", name |-> "", success |-> "None", status |-> "None",
     error |-> error_message]

SuppDetails ==
    { Detail(Phone1, "Casey", "False", ErrUnsubscribed),
      Detail(Phone1, "", "False", ErrReplyStop),
      Detail(RawPhone1, "", "False", ErrInvalidNumber),
      Detail(Phone1, "", "False", ErrNotValid),
      Detail(Phone2, "", "False", ErrInvalidNumber),
      Detail(Phone2, "", "False", ErrUnavailable),
      Detail(Phone2, "", "True", ""),
      ErrorDetail(ErrInvalidNumber) }

SeqsUpTo(S, n) == UNION {[1..k -> S] : k \in 0..n}

(***************************************************************************)
(* Operator edits of the suppression tables (routes.py)                    *)
(***************************************************************************)
RawPhones == {RawPhone1, Phone2, ShortPhone}

unsubscribed_add(raw_phone, name) ==
    LET phone == NormalizedPhone[raw_phone] IN
    /\ raw_phone # ""
    /\ ValidPhone[phone]
    /\ ~ \E u \in unsubscribed : u.phone = phone
    /\ unsubscribed' = unsubscribed \cup
           {[id |-> NextId(unsubscribed), name |-> name, phone |-> phone,
             reason |-> "", source |-> "manual"]}
    /\ UNCHANGED <<suppressed, community_members, event_registrations>>

(***************************************************************************)
(* Specification SpecSupp: the suppression engine called with arbitrary    *)
(* batches of result records, between operator edits of the tables         *)
(***************************************************************************)
\* every phone is a community member and registered for every event
PopulatedTables ==
    /\ unsubscribed = {}
    /\ suppressed = {}
    /\ community_members = {[phone |-> p, name |-> ""] : p \in Phones}
    /\ event_registrations =
           {[event_id |-> e, phone |-> p, name |-> ""] : e \in EventIds, p \in Phones}

\* n counts the calls; each call is made for the next batch (MessageLog) id
NoPfdCall ==
    [n |-> 0, details |-> <<>>, source_message_log_id |-> 0, raised |-> FALSE,
     counts |-> pfd_zero_counts(<<>>)]

RecordPfdCall(details, source_message_log_id, raised, counts) ==
    pfd_call' = [n |-> pfd_call.n + 1, details |-> details,
                 source_message_log_id |-> source_message_log_id,
                 raised |-> raised, counts |-> counts]

SuppProcessFailureDetails ==
    /\ pfd_call.n < MaxCalls
    /\ \E details \in SeqsUpTo(SuppDetails, MaxDetails) :
        LET log_id == pfd_call.n + 1
            r == process_failure_details(details, log_id, CurrentDb)
        IN
        /\ SetDb(r.db)
        /\ RecordPfdCall(details, log_id, FALSE, r.counts)
    /\ UNCHANGED <<config, fn_call, job_vars, sched_vars, inbox_vars>>

SuppUnsubscribedAdd ==
    /\ \E raw_phone \in RawPhones : unsubscribed_add(raw_phone, "")
    /\ UNCHANGED <<pfd_call, config, fn_call, job_vars, sched_vars, inbox_vars>>

InitSupp ==
    /\ fn_call = NoFnCall
    /\ PopulatedTables
    /\ pfd_call = NoPfdCall
    /\ config = Config(TRUE, "", 0, TRUE)
    /\ IdleDispatch /\ IdleScheduler /\ IdleInbox

NextSupp ==
    \/ SuppProcessFailureDetails
    \/ SuppUnsubscribedAdd

SpecSupp == InitSupp /\ [][NextSupp]_vars

(***************************************************************************)
(* Claims about the suppression engine (checked under SpecSupp)            *)
(***************************************************************************)
\* the entries of a batch that the engine treats as failures of phone p in a category
FailureIndexes(details, p, category) ==
    { i \in 1..Len(details) :
        /\ details[i].success # "True"
        /\ ~ (details[i].success = "None" /\ details[i].error = ""
              /\ details[i].status \notin {"failed", "undelivered"})
        /\ details[i].phone # ""
        /\ NormalizedPhone[details[i].phone] = p
        /\ FailureClass[details[i].error] = category }

LatestFailure(details, p, category) ==
    details[MaxOf(FailureIndexes(details, p, category))]

HardFailPhones(details) ==
    { p \in Phones : FailureIndexes(details, p, "hard_fail") # {} }

\* C8: however many times process_failure_details has run, a phone that the
\* latest run classified opt_out (hard_fail) has exactly one UnsubscribedContact
\* (SuppressedContact) row, carrying the reason and source of that run and, for
\* hard_fail, its batch id; and no table ever holds two rows for one phone.
C8_UpsertKeepsOneLatestRecord ==
    /\ \A u, v \in unsubscribed : u.phone = v.phone => u = v
    /\ \A u, v \in suppressed : u.phone = v.phone => u = v
    /\ \A p \in Phones :
         /\ ~pfd_call.raised /\ FailureIndexes(pfd_call.details, p, "opt_out") # {} =>
              LET d == LatestFailure(pfd_call.details, p, "opt_out") IN
              \E u \in unsubscribed :
                  /\ u.phone = p
                  /\ u.reason = d.error
                  /\ u.source = "message_failure"
         /\ ~pfd_call.raised /\ FailureIndexes(pfd_call.details, p, "hard_fail") # {} =>
              LET d == LatestFailure(pfd_call.details, p, "hard_fail") IN
              \E s \in suppressed :
                  /\ s.phone = p
                  /\ s.reason = d.error
                  /\ s.category = "hard_fail"
                  /\ s.source = "message_failure"
                  /\ s.source_message_log_id = pfd_call.source_message_log_id

\* a second run has updated the row the first run created: the name comes from
\* the first run's record, the reason and batch id from the second run's
C8_Witness ==
    /\ pfd_call.n = 2
    /\ pfd_call.details = <<Detail(Phone1, "", "False", ErrReplyStop)>>
    /\ \E u \in unsubscribed :
         u.phone = Phone1 /\ u.name = "Casey" /\ u.reason = ErrReplyStop

\* C9: a call of process_failure_details removes from the community-member and
\* event-registration tables exactly the rows whose phone it classified
\* hard_fail: none of those remain, and no other row is removed.
C9_HardFailRemovesExactlyThoseRecipients ==
    [][pfd_call'.n # pfd_call.n /\ ~pfd_call'.raised =>
         LET hard == HardFailPhones(pfd_call'.details) IN
         /\ community_members' = {m \in community_members : m.phone \notin hard}
         /\ event_registrations' = {r \in event_registrations : r.phone \notin hard}]_vars

\* a call with a hard failure of Phone1 (given as a bare number) has removed
\* Phone1 from both tables and kept Phone2
C9_Witness ==
    /\ pfd_call.n > 0
    /\ pfd_call.details = <<Detail(RawPhone1, "", "False", ErrInvalidNumber)>>
    /\ pfd_call.counts.community_member_deletes = 1
    /\ pfd_call.counts.event_registration_deletes = 2
    /\ ~ \E m \in community_members : m.phone = Phone1
    /\ ~ \E r \in event_registrations : r.phone = Phone1
    /\ \E m \in community_members : m.phone = Phone2
    /\ \E r \in event_registrations : r.phone = Phone2

(***************************************************************************)
(* twilio_service.py: TwilioService                                        *)
(***************************************************************************)
\* what client.messages.create does for one message: it returns the created
\* message, raises a TwilioRestException carrying an HTTP status and a
\* message, or raises some other exception
ProviderOutcomes ==
    { [kind |-> "created", status |-> 201, msg |-> ""],
      [kind |-> "TwilioRestException", status |-> 400, msg |-> ErrInvalidNumber],
      [kind |-> "TwilioRestException", status |-> 429, msg |-> ErrTooManyRequests],
      [kind |-> "TwilioRestException", status |-> 503, msg |-> ErrUnavailable],
      [kind |-> "Exception", status |-> 0, msg |-> ErrConnection] }

is_transient_error(status) == status = 429 \/ status >= 500

\* send_message: the returned dict (raised = "None"), or the exception raised
send_message(outcome, raise_on_transient) ==
    IF outcome.kind = "created"
    THEN [raised |-> "None", success |-> "True", error |-> ""]
    ELSE IF outcome.kind = "TwilioRestException"
    THEN IF raise_on_transient /\ is_transient_error(outcome.status)
         THEN [raised |-> "TwilioTransientError", success |-> "None", error |-> outcome.msg]
         ELSE [raised |-> "None", success |-> "False", error |-> outcome.msg]
    ELSE IF raise_on_transient
         THEN [raised |-> "Exception", success |-> "None", error |-> outcome.msg]
         ELSE [raised |-> "None", success |-> "False", error |-> outcome.msg]

\* send_bulk lines 88-93: the results before the first recipient
NoResults == [success_count |-> 0, failure_count |-> 0, details |-> <<>>]

\* send_bulk lines 109-120: the result of one recipient added to the results
send_bulk_record(results, recipient, result) ==
    [details |-> Append(results.details,
                        Detail(recipient.phone, recipient.name, result.success,
                               result.error)),
     success_count |-> results.success_count + (IF result.success = "True" THEN 1 ELSE 0),
     failure_count |-> results.failure_count + (IF result.success = "True" THEN 0 ELSE 1)]

\* get_twilio_service raises ValueError when the credentials are not configured
ErrCredentials == "Twilio credentials not configured. Check environment variables."

(***************************************************************************)
(* recipient_service.py and the recipient queries of the send paths        *)
(***************************************************************************)
\* rows come back in insertion order; the fixtures were inserted in this order
PhoneOrder == <<Phone1, Phone2, Phone3>>

recipient_rows(rows) ==
    LET present == SelectSeq(PhoneOrder, LAMBDA p : \E r \in rows : r.phone = p) IN
    [i \in 1..Len(present) |->
        LET row == CHOOSE r \in rows : r.phone = present[i] IN
        [phone |-> row.phone, name |-> row.name]]

\* recipient_service.py lines 4-12 and 26-34: the phones among `phones` that
\* have a row in the table
get_phone_set(phones, rows) ==
    {row.phone : row \in {r \in rows : r.phone \in phones \ {""}}}

\* lines 15-23 and 37-45: (filtered, skipped, phones) as the code returns them
filter_recipients(recipients, rows) ==
    LET phones == {recipients[i].phone : i \in 1..Len(recipients)}
        found == get_phone_set(phones, rows)
    IN
    IF found = {}
    THEN [filtered |-> recipients, skipped |-> <<>>, phones |-> {}]
    ELSE [filtered |-> SelectSeq(recipients, LAMBDA r : r.phone \notin found),
          skipped |-> SelectSeq(recipients, LAMBDA r : r.phone \in found),
          phones |-> found]

filter_unsubscribed_recipients_unordered(recipients, unsubscribed_rows) ==
    LET r == filter_recipients(recipients, unsubscribed_rows) IN
    [r EXCEPT !.filtered = [i \in 1..Len(@) |-> @[Len(@) + 1 - i]]]

filter_unsubscribed_recipients(recipients, unsubscribed_rows) ==
    filter_recipients(recipients, unsubscribed_rows)

filter_suppressed_recipients_none(recipients, suppressed_rows) ==
    [filtered |-> recipients, skipped |-> <<>>, phones |-> {}]

filter_suppressed_recipients(recipients, suppressed_rows) ==
    filter_recipients(recipients, suppressed_rows)

\* the recipients of a target ("community", or "event" with its id) after both filters
resolve_recipients(target, event_id, db) ==
    LET rows == IF target = "community" THEN db.community_members
                ELSE {r \in db.event_registrations : r.event_id = event_id}
    IN filter_suppressed_recipients(
           filter_unsubscribed_recipients(recipient_rows(rows), db.unsubscribed).filtered,
           db.suppressed).filtered

(***************************************************************************)
(* routes.py dashboard, immediate send: the MessageLog is stored with      *)
(* status processing and send_bulk_job is enqueued with three retries      *)
(***************************************************************************)
MaxRetries == 3

\* bound of the dispatch specification: the batches submitted in one behaviour
MaxLogs == 1

MessageLog(status, total_recipients, details) ==
    [status |-> status, total_recipients |-> total_recipients, success_count |-> 0,
     failure_count |-> 0, details |-> details]

ErrQueue == "Error 111 connecting to localhost:6379. Connection refused."

QueuedJob(log_id, recipient_data) ==
    [pc |-> "queued", log_id |-> log_id, recipient_data |-> recipient_data,
     has_job |-> TRUE, retries_left |-> MaxRetries, existing_details |-> <<>>,
     results |-> NoResults, calls |-> <<>>, outcome |-> "none"]

DashboardSend(target, event_id, test_mode, enqueued) ==
    LET recipient_data ==
            IF test_mode
            THEN <<[phone |-> config.admin_test_phone, name |-> "Admin Test"]>>
            ELSE resolve_recipients(target, event_id, CurrentDb)
        log_id == Len(message_logs) + 1
    IN
    /\ job = NoJob
    /\ Len(message_logs) < MaxLogs
    /\ test_mode => config.admin_test_phone # ""
    /\ recipient_data # <<>>
    /\ IF enqueued
       THEN /\ message_logs' = Append(message_logs,
                                      MessageLog("processing", Len(recipient_data), <<>>))
            /\ job' = QueuedJob(log_id, recipient_data)
       ELSE /\ message_logs' = Append(message_logs,
                                      MessageLog("failed", Len(recipient_data),
                                                 <<ErrorDetail(ErrQueue)>>))
            /\ job' = job
    /\ UNCHANGED <<supp_vars, config, fn_call, sched_vars, inbox_vars>>

(***************************************************************************)
(* tasks.py: send_bulk_job.  job.pc is the position of the job: queued,    *)
(* sending (inside send_bulk), done (returned) or raised (the exception    *)
(* reached the queue).  job.calls lists the numbers handed to the provider *)
(* by the current execution, in order.                                     *)
(***************************************************************************)
Max(a, b) == IF a >= b THEN a ELSE b

CountSuccess(details, value) ==
    Cardinality({i \in 1..Len(details) : details[i].success = value})

existing_success(existing_details) == CountSuccess(existing_details, "True")
existing_failure(existing_details) == CountSuccess(existing_details, "False")

\* line 66
job_start_index_zero(existing_details) == 0

job_start_index(existing_details) == Len(existing_details)

\* line 67: recipient_data[start_index:]
remaining_recipients(recipient_data, existing_details) ==
    SubSeq(recipient_data, job_start_index(existing_details) + 1, Len(recipient_data))

\* lines 12-16; j.has_job is get_current_job() is not None
should_mark_failed_never(j) == FALSE

should_mark_failed_always(j) == TRUE

should_mark_failed(j) == IF ~j.has_job THEN TRUE ELSE j.retries_left = 0

append_error_detail(details, error_message) == Append(details, ErrorDetail(error_message))

\* lines 69-75: nothing left to send
job_nothing_remaining(log, j) ==
    [log EXCEPT
       !.total_recipients = Len(j.recipient_data),
       !.success_count = existing_success(j.existing_details),
       !.failure_count = existing_failure(j.existing_details),
       !.status = IF existing_failure(j.existing_details) = 0 THEN "sent" ELSE "failed"]

\* lines 80-86: send_bulk returned
job_completed_always_sent(log, j) ==
    [log EXCEPT
       !.details = j.existing_details \o j.results.details,
       !.total_recipients = Len(j.recipient_data),
       !.success_count = existing_success(j.existing_details) + j.results.success_count,
       !.failure_count = existing_failure(j.existing_details) + j.results.failure_count,
       !.status = "sent"]

job_completed(log, j) ==
    LET failure_count == existing_failure(j.existing_details) + j.results.failure_count IN
    [log EXCEPT
       !.details = j.existing_details \o j.results.details,
       !.total_recipients = Len(j.recipient_data),
       !.success_count = existing_success(j.existing_details) + j.results.success_count,
       !.failure_count = failure_count,
       !.status = IF failure_count = 0 THEN "sent" ELSE "failed"]

\* lines 96-103: the partial results carried by the TwilioTransientError are stored
job_transient_progress(log, j) ==
    [log EXCEPT
       !.details = j.existing_details \o j.results.details,
       !.total_recipients = Len(j.recipient_data),
       !.success_count = existing_success(j.existing_details) + j.results.success_count,
       !.failure_count = existing_failure(j.existing_details) + j.results.failure_count]

\* lines 104-111: no retry is left
job_transient_failed(log, j, error_message) ==
    [log EXCEPT
       !.status = "failed",
       !.details = append_error_detail(j.existing_details \o j.results.details,
                                       error_message),
       !.total_recipients = Len(j.recipient_data),
       !.failure_count = Max(@, existing_failure(j.existing_details) + 1)]

job_on_transient(log, j, error_message) ==
    IF should_mark_failed(j)
    THEN job_transient_failed(job_transient_progress(log, j), j, error_message)
    ELSE job_transient_progress(log, j)

\* lines 121-129: any other exception; `_load_details(log) or existing_details`
job_on_exception_error_only(log, j, error_message) ==
    [log EXCEPT
       !.details = <<ErrorDetail(error_message)>>,
       !.total_recipients = Len(j.recipient_data),
       !.failure_count = Max(@, existing_failure(j.existing_details) + 1),
       !.status = "failed"]

job_on_exception(log, j, error_message) ==
    LET loaded == IF log.details # <<>> THEN log.details ELSE j.existing_details IN
    [log EXCEPT
       !.details = append_error_detail(loaded, error_message),
       !.total_recipients = Len(j.recipient_data),
       !.success_count = Max(@, existing_success(j.existing_details)),
       !.failure_count = Max(@, existing_failure(j.existing_details) + 1),
       !.status = "failed"]

\* lines 87-94: the batch was committed at line 86; an exception raised by
\* process_failure_details is logged and the batch is left as committed
job_after_post_processing_failed(stored, raised) ==
    IF raised THEN [stored EXCEPT !.status = "failed"] ELSE stored

job_after_post_processing(stored, raised) == stored

\* process_failure_details as the job calls it: an exception it raises is logged
\* and its transaction rolled back
JobProcessFailureDetails(combined_details, log_id) ==
    \E raised \in BOOLEAN :
        IF raised
        THEN /\ UNCHANGED db_tables
             /\ RecordPfdCall(combined_details, log_id, TRUE,
                              pfd_zero_counts(combined_details))
        ELSE LET r == process_failure_details(combined_details, log_id, CurrentDb) IN
             /\ SetDb(r.db)
             /\ RecordPfdCall(combined_details, log_id, FALSE, r.counts)

\* lines 51-78: the job starts; has_job is whether it runs inside a queue worker
JobStart(has_job) ==
    /\ job.pc = "queued"
    /\ has_job \/ job.retries_left = MaxRetries
    /\ LET log == message_logs[job.log_id]
           j == [job EXCEPT !.has_job = has_job, !.existing_details = log.details,
                            !.results = NoResults, !.calls = <<>>]
       IN
       IF remaining_recipients(j.recipient_data, j.existing_details) = <<>>
       THEN /\ message_logs' = [message_logs EXCEPT ![j.log_id] =
                                    job_nothing_remaining(log, j)]
            /\ job' = [j EXCEPT !.pc = "done", !.outcome = "nothing_remaining"]
            /\ UNCHANGED supp_vars
       ELSE IF ~config.twilio_configured
       THEN LET failed == job_on_exception(log, j, ErrCredentials) IN
            /\ message_logs' = [message_logs EXCEPT ![j.log_id] = failed]
            /\ job' = [j EXCEPT !.pc = "done", !.outcome = "exception"]
            /\ JobProcessFailureDetails(failed.details, j.log_id)
       ELSE /\ job' = [j EXCEPT !.pc = "sending"]
            /\ UNCHANGED <<message_logs, supp_vars>>
    /\ UNCHANGED <<config, fn_call, sched_vars, inbox_vars>>

\* twilio_service.py lines 95-120 with tasks.py lines 95-137: the next recipient
\* is handed to the provider
JobSendMessage(outcome) ==
    /\ job.pc = "sending"
    /\ Len(job.results.details) <
           Len(remaining_recipients(job.recipient_data, job.existing_details))
    /\ LET log == message_logs[job.log_id]
           recipient == remaining_recipients(job.recipient_data, job.existing_details)
                            [Len(job.results.details) + 1]
           result == send_message(outcome, TRUE)
           called == [job EXCEPT !.calls = Append(@, recipient.phone)]
       IN
       IF result.raised = "None"
       THEN /\ job' = [called EXCEPT
                          !.results = send_bulk_record(@, recipient, result)]
            /\ UNCHANGED <<message_logs, supp_vars>>
       ELSE IF result.raised = "TwilioTransientError"
       THEN LET stored == job_on_transient(log, called, result.error) IN
            /\ message_logs' = [message_logs EXCEPT ![job.log_id] = stored]
            /\ job' = [called EXCEPT !.pc = "raised", !.outcome = "transient"]
            /\ JobProcessFailureDetails(stored.details, job.log_id)
       ELSE LET failed == job_on_exception(log, called, result.error) IN
            /\ message_logs' = [message_logs EXCEPT ![job.log_id] = failed]
            /\ job' = [called EXCEPT !.pc = "done", !.outcome = "exception"]
            /\ JobProcessFailureDetails(failed.details, job.log_id)
    /\ UNCHANGED <<config, fn_call, sched_vars, inbox_vars>>

\* tasks.py lines 80-94: send_bulk returned its results
JobComplete ==
    /\ job.pc = "sending"
    /\ Len(job.results.details) =
           Len(remaining_recipients(job.recipient_data, job.existing_details))
    /\ LET stored == job_completed(message_logs[job.log_id], job) IN
       /\ JobProcessFailureDetails(stored.details, job.log_id)
       /\ message_logs' = [message_logs EXCEPT ![job.log_id] =
                               job_after_post_processing(stored, pfd_call'.raised)]
       /\ job' = [job EXCEPT !.pc = "done", !.outcome = "completed"]
    /\ UNCHANGED <<config, fn_call, sched_vars, inbox_vars>>

\* the queue runs the job again while retries are left (Retry(max=3))
JobRetry ==
    /\ job.pc = "raised"
    /\ job.has_job
    /\ job.retries_left > 0
    /\ job' = [job EXCEPT !.pc = "queued", !.retries_left = @ - 1]
    /\ UNCHANGED <<message_logs, supp_vars, config, fn_call, sched_vars, inbox_vars>>

(***************************************************************************)
(* Specification SpecJob: one batch submitted from the dashboard and its   *)
(* send_bulk_job, executed by a queue worker (and retried by the queue) or *)
(* called outside a worker                                                 *)
(***************************************************************************)
\* three community members, two of them registered for event 1 and one for event 2
DispatchTables ==
    /\ suppressed = {}
    /\ community_members = {[phone |-> p, name |-> ""] : p \in Phones}
    /\ event_registrations =
           {[event_id |-> 1, phone |-> p, name |-> ""] : p \in {Phone1, Phone2}}
           \cup {[event_id |-> 2, phone |-> Phone1, name |-> ""]}

InitJob ==
    /\ fn_call = NoFnCall
    /\ DispatchTables
    /\ unsubscribed \in
           {{}, {[id |-> 1, name |-> "", phone |-> Phone3, reason |-> "",
                  source |-> "manual"]}}
    /\ pfd_call = NoPfdCall
    /\ \E twilio_configured \in BOOLEAN, admin_test_phone \in {"", Phone1} :
           config = Config(twilio_configured, admin_test_phone, 0, TRUE)
    /\ IdleDispatch /\ IdleScheduler /\ IdleInbox

NextJob ==
    \/ \E target \in {"community", "event"}, event_id \in EventIds,
          test_mode \in BOOLEAN, enqueued \in BOOLEAN :
            DashboardSend(target, event_id, test_mode, enqueued)
    \/ \E has_job \in BOOLEAN : JobStart(has_job)
    \/ \E outcome \in ProviderOutcomes : JobSendMessage(outcome)
    \/ JobComplete
    \/ JobRetry

SpecJob == InitJob /\ [][NextJob]_vars

(***************************************************************************)
(* Specification SpecJobRedelivery: the same, with a queue that delivers a *)
(* job at least once: a job whose execution returned may be handed to a    *)
(* worker again.  send_bulk_job then finds the records of the earlier      *)
(* execution on the batch (lines 55-67).                                   *)
(***************************************************************************)
JobRedeliver ==
    /\ job.pc = "done"
    /\ job.has_job
    /\ job' = [job EXCEPT !.pc = "queued"]
    /\ UNCHANGED <<message_logs, supp_vars, config, fn_call, sched_vars, inbox_vars>>

NextJobRedelivery == NextJob \/ JobRedeliver

SpecJobRedelivery == InitJob /\ [][NextJobRedelivery]_vars

(***************************************************************************)
(* Claims about the dispatch job (checked under SpecJob)                   *)
(***************************************************************************)
\* C3: a job that starts on a batch already holding N result records hands to
\* the provider exactly recipients[N:], each once and in order, and none of
\* recipients[:N]; the N existing records stay as they were; and when the send
\* returns normally the batch has total_recipients = the full recipient count,
\* one record per recipient, and success_count + failure_count = that count.
C3_ResumeSendsOnlyRemaining ==
    job.pc \in {"sending", "done", "raised"} =>
        LET log == message_logs[job.log_id]
            recipients == job.recipient_data
            N == Len(job.existing_details)
        IN
        /\ N + Len(job.calls) <= Len(recipients)
        /\ \A i \in 1..Len(job.calls) : job.calls[i] = recipients[N + i].phone
        /\ Len(log.details) >= N
        /\ SubSeq(log.details, 1, N) = job.existing_details
        /\ (job.outcome = "completed" =>
               /\ N + Len(job.calls) = Len(recipients)
               /\ log.total_recipients = Len(recipients)
               /\ Len(log.details) = Len(recipients)
               /\ \A i \in 1..Len(recipients) :
                      /\ log.details[i].phone = recipients[i].phone
                      /\ log.details[i].success \in {"True", "False"}
               /\ log.success_count = CountSuccess(log.details, "True")
               /\ log.failure_count = CountSuccess(log.details, "False")
               /\ log.success_count + log.failure_count = Len(recipients))

\* a retried job found one of three results recorded, sent to the other two and returned
C3_Witness ==
    /\ job.pc = "done"
    /\ job.outcome = "completed"
    /\ Len(job.recipient_data) = 3
    /\ Len(job.existing_details) = 1
    /\ job.calls = <<Phone2, Phone3>>
    /\ message_logs[job.log_id].total_recipients = 3
    /\ message_logs[job.log_id].success_count = 2
    /\ message_logs[job.log_id].failure_count = 1

\* C4: when the provider raises a transient error (429 or 5xx) during the job,
\* the exception reaches the queue with the results of the recipients completed
\* before it stored on the batch; while the queue has retries left the batch
\* stays processing with exactly those results, and it is marked failed (with an
\* error entry appended) only when retries_left is 0 or there is no current job.
C4_TransientKeepsProgressUntilRetriesExhausted ==
    job.pc = "raised" =>
        LET log == message_logs[job.log_id]
            done == job.existing_details \o job.results.details
            retrying == job.has_job /\ job.retries_left > 0
        IN
        /\ job.outcome = "transient"
        /\ log.total_recipients = Len(job.recipient_data)
        /\ log.success_count = CountSuccess(done, "True")
        /\ Len(log.details) >= Len(done)
        /\ SubSeq(log.details, 1, Len(done)) = done
        /\ (retrying =>
               /\ log.status = "processing"
               /\ log.details = done
               /\ log.failure_count = CountSuccess(done, "False"))
        /\ (~retrying =>
               /\ log.status = "failed"
               /\ Len(log.details) = Len(done) + 1
               /\ log.details[Len(log.details)].success = "None"
               /\ log.failure_count = Max(CountSuccess(done, "False"),
                                          CountSuccess(job.existing_details, "False") + 1))

\* the second recipient of three met a 503 while the queue had retries left
C4_Witness ==
    /\ job.pc = "raised"
    /\ job.has_job
    /\ job.retries_left = MaxRetries
    /\ job.calls = <<Phone1, Phone2>>
    /\ Len(job.results.details) = 1
    /\ message_logs[job.log_id].status = "processing"
    /\ message_logs[job.log_id].details = <<Detail(Phone1, "", "True", "")>>

\* C13: when process_failure_details raises after send_bulk returned, the
\* batch keeps what the send produced: the existing and the new result records,
\* their counts, and the status sent when no recipient failed (failed only when
\* one did); the tables of the suppression engine are left as they were.
C13_PostProcessingFailureKeepsSendOutcome ==
    (job.pc = "done" /\ job.outcome = "completed" /\ pfd_call.raised) =>
        LET log == message_logs[job.log_id]
            sent == job.existing_details \o job.results.details
        IN
        /\ pfd_call.details = sent
        /\ log.details = sent
        /\ log.total_recipients = Len(job.recipient_data)
        /\ log.success_count = CountSuccess(sent, "True")
        /\ log.failure_count = CountSuccess(sent, "False")
        /\ log.status = IF CountSuccess(sent, "False") = 0 THEN "sent" ELSE "failed"

\* three recipients were all sent to, the suppression engine raised, the batch is sent
C13_Witness ==
    /\ job.pc = "done"
    /\ job.outcome = "completed"
    /\ pfd_call.raised
    /\ Len(job.calls) = 3
    /\ message_logs[job.log_id].status = "sent"
    /\ message_logs[job.log_id].success_count = 3
    /\ message_logs[job.log_id].failure_count = 0

\* C14: the step in which the send raises an exception that is not a
\* TwilioTransientError ends the job (it returns, so the queue is asked for no
\* retry) with the batch failed; the records the batch held before the attempt
\* are kept in order and one entry carrying the error text follows them.
C14_ExceptionFailsBatchKeepingRecords ==
    [][(job.pc \in {"queued", "sending"} /\ job'.outcome = "exception") =>
          LET prior == message_logs[job.log_id].details
              log == message_logs'[job.log_id]
          IN
          /\ job'.pc = "done"
          /\ job.pc = "sending" => prior = job.existing_details
          /\ log.status = "failed"
          /\ Len(log.details) = Len(prior) + 1
          /\ SubSeq(log.details, 1, Len(prior)) = prior
          /\ log.details[Len(log.details)] \in
                 {ErrorDetail(ErrConnection), ErrorDetail(ErrCredentials)}
          /\ log.total_recipients = Len(job.recipient_data)]_vars

\* a retried job that found one record stored met a connection error
C14_Witness ==
    /\ job.pc = "done"
    /\ job.outcome = "exception"
    /\ job.retries_left = MaxRetries - 1
    /\ Len(job.existing_details) = 1
    /\ message_logs[job.log_id].status = "failed"
    /\ message_logs[job.log_id].details =
           Append(job.existing_details, ErrorDetail(ErrConnection))

\* C15: in every state of every batch, whatever attempts, transient aborts,
\* retries and failures it went through, success_count + failure_count is at
\* most total_recipients.
C15_CountsWithinTotal ==
    \A log_id \in DOMAIN message_logs :
        message_logs[log_id].success_count + message_logs[log_id].failure_count
            <= message_logs[log_id].total_recipients

\* the last retry met a transient error on the third of three recipients after
\* two were sent: the failure is counted and the counts reach the total
C15_Witness ==
    /\ job.pc = "raised"
    /\ job.retries_left = 0
    /\ Len(job.existing_details) > 0
    /\ message_logs[job.log_id].status = "failed"
    /\ message_logs[job.log_id].total_recipients = 3
    /\ message_logs[job.log_id].success_count = 2
    /\ message_logs[job.log_id].failure_count = 1

\* the job returned without an exception: send_bulk returned its results, or
\* no recipient was left to send to
CompletedNormally ==
    /\ job.pc = "done"
    /\ job.outcome \in {"completed", "nothing_remaining"}

\* C16: when send_bulk_job completes normally, the batch is sent exactly when
\* its failure_count is zero and failed otherwise.
C16_SentIffNoFailure ==
    CompletedNormally =>
        LET log == message_logs[job.log_id] IN
        /\ log.status \in {"sent", "failed"}
        /\ log.status = "sent" <=> log.failure_count = 0
        /\ log.failure_count = CountSuccess(log.details, "False")

\* one of three recipients was rejected by the provider: the batch is failed
C16_Witness ==
    /\ CompletedNormally
    /\ job.outcome = "completed"
    /\ message_logs[job.log_id].status = "failed"
    /\ message_logs[job.log_id].success_count = 2
    /\ message_logs[job.log_id].failure_count = 1

\* an execution of send_bulk_job ends: it returns or raises to the queue
ExecutionEnds == job.pc \in {"queued", "sending"} /\ job'.pc \in {"done", "raised"}

\* C17: every execution of send_bulk_job that ends with the batch sent or
\* failed, or in a transient abort, has handed the full accumulated result set
\* of the batch to process_failure_details.
C17_EveryOutcomeReachesSuppressionEngine ==
    [][ExecutionEnds =>
          /\ pfd_call'.n = pfd_call.n + 1
          /\ pfd_call'.source_message_log_id = job.log_id
          /\ pfd_call'.details = message_logs'[job.log_id].details]_vars

(***************************************************************************)
(* Scheduled messages: routes.py (schedule, cancel) and                    *)
(* scheduler_service.py send_scheduled_messages.  Times are minutes of UTC *)
(* wall-clock time.  A nullable time or id that is NULL is NoTime or NoId. *)
(***************************************************************************)
NoTime == -1
NoId == 0

\* line 42: timedelta(minutes=10)
ProcessingTimeoutMinutes == 10

\* bound of the scheduler specification: the five-minute steps of the clock
MaxClockSteps == 3

ErrTimedOut == "Message processing timed out"
ErrExpired == "Message expired - scheduled time exceeded max lag"
ErrNoAdminPhone == "ADMIN_TEST_PHONE not configured"
ErrNoRecipients == "No recipients found (all recipients unsubscribed or empty list)"
ErrPostProcessing == "A transaction is already begun on this Session."

ScheduledMessage(scheduled_at, target, event_id, test_mode) ==
    [status |-> "pending", scheduled_at |-> scheduled_at, target |-> target,
     event_id |-> IF target = "event" THEN event_id ELSE NoId,
     test_mode |-> test_mode, error_message |-> "", sent_at |-> NoTime,
     message_log_id |-> NoId]

\* routes.py dashboard, schedule_later: the time must be in the future
ScheduleMessage(target, event_id, test_mode, scheduled_utc) ==
    /\ ~(scheduled_utc <= clock)
    /\ scheduled_messages' =
           Append(scheduled_messages,
                  ScheduledMessage(scheduled_utc, target, event_id, test_mode))
    /\ UNCHANGED <<workers, clock, bulk_sends, cancel_request>>
    /\ UNCHANGED <<supp_vars, config, fn_call, job_vars, inbox_vars>>

\* routes.py scheduled_cancel
ScheduledCancel(scheduled_id) ==
    /\ scheduled_id \in DOMAIN scheduled_messages
    /\ scheduled_messages[scheduled_id].status \in {"pending", "processing"}
    /\ scheduled_messages' =
           [scheduled_messages EXCEPT ![scheduled_id].status = "cancelled"]
    /\ UNCHANGED <<workers, clock, bulk_sends, cancel_request>>
    /\ UNCHANGED <<supp_vars, config, fn_call, job_vars, inbox_vars>>

\* five minutes pass
ClockTick ==
    /\ clock < 5 * MaxClockSteps
    /\ clock' = clock + 5
    /\ UNCHANGED <<scheduled_messages, workers, bulk_sends, cancel_request>>
    /\ UNCHANGED <<supp_vars, config, fn_call, job_vars, inbox_vars>>

\* the ids of a table in ascending order
AscendingIds(table) == [i \in 1..Len(table) |-> i]

\* lines 42-46
stuck_processing_none(table, now) == {}

stuck_processing(table, now) ==
    {m \in DOMAIN table :
        /\ table[m].status = "processing"
        /\ table[m].scheduled_at <= now - ProcessingTimeoutMinutes}

\* lines 66-69
due_pending_any_time(table, now) ==
    SelectSeq(AscendingIds(table), LAMBDA m : table[m].status = "pending")

due_pending(table, now) ==
    SelectSeq(AscendingIds(table),
              LAMBDA m : table[m].status = "pending" /\ table[m].scheduled_at <= now)

\* lines 60-63 and 92: expiry_threshold and scheduled_at < expiry_threshold
expiry_never(scheduled_at, now, max_lag_minutes) == FALSE

expiry_applies(scheduled_at, now, max_lag_minutes) ==
    /\ max_lag_minutes > 0
    /\ scheduled_at < now - max_lag_minutes

\* lines 116-119: the rows changed by UPDATE ... WHERE id = :id AND status = 'pending'
claim_rows_any(status) == 1

claim_rows(status) == IF status = "pending" THEN 1 ELSE 0

\* the writes of the ORM object that the next commit flushes
mark_failed_silent(row, error_message, now) ==
    [row EXCEPT !.status = "failed", !.sent_at = now]

mark_failed(row, error_message, now) ==
    [row EXCEPT !.status = "failed", !.error_message = error_message, !.sent_at = now]

mark_expired(row, now) ==
    [row EXCEPT !.status = "expired", !.error_message = ErrExpired, !.sent_at = now]

mark_sent(row, now, log_id) ==
    [row EXCEPT !.status = "sent", !.sent_at = now, !.message_log_id = log_id]

\* a worker inside a tick: now (line 38), the rows of the two queries, the
\* position in the loop over pending, and the recipients of the claimed message
TickWorker(now) ==
    [pc |-> "recover", now |-> now, stuck |-> {}, pending |-> <<>>, idx |-> 0,
     recipient_data |-> <<>>]

\* `continue`, or the end of the loop body; after the last item the tick returns
next_item(worker) ==
    IF worker.idx < Len(worker.pending)
    THEN [worker EXCEPT !.pc = "loop", !.idx = @ + 1, !.recipient_data = <<>>]
    ELSE IdleWorker

\* lines 66-82: the pending query and the entry into the loop
enter_loop(worker, table) ==
    LET pending == due_pending(table, worker.now) IN
    IF pending = <<>> THEN IdleWorker
    ELSE [worker EXCEPT !.pc = "loop", !.pending = pending, !.idx = 1]

current_id(worker) == worker.pending[worker.idx]

\* send_bulk with raise_on_transient off: every recipient gets a result record
RECURSIVE send_bulk(_, _, _)
send_bulk(results, recipients, outcomes) ==
    IF recipients = <<>> THEN results
    ELSE send_bulk(send_bulk_record(results, Head(recipients),
                                    send_message(Head(outcomes), FALSE)),
                   Tail(recipients), Tail(outcomes))

\* the provider outcomes the scheduler is exercised with
SchedulerOutcomes == {o \in ProviderOutcomes : o.status \in {201, 400}}

\* line 38: a scheduler process starts a tick
WorkerBegin(w) ==
    /\ workers[w].pc = "idle"
    /\ workers' = [workers EXCEPT ![w] = TickWorker(clock)]
    /\ UNCHANGED <<scheduled_messages, clock, bulk_sends, cancel_request>>
    /\ UNCHANGED <<supp_vars, config, fn_call, job_vars, inbox_vars>>

\* lines 42-48: the query for stuck messages; with none found the tick goes on
\* to the pending query (lines 60-76)
WorkerRecoverQuery(w) ==
    /\ workers[w].pc = "recover"
    /\ LET stuck == stuck_processing(scheduled_messages, workers[w].now) IN
       workers' = [workers EXCEPT ![w] =
                      IF stuck = {} THEN enter_loop(@, scheduled_messages)
                      ELSE [@ EXCEPT !.pc = "recover_commit", !.stuck = stuck]]
    /\ UNCHANGED <<scheduled_messages, clock, bulk_sends, cancel_request>>
    /\ UNCHANGED <<supp_vars, config, fn_call, job_vars, inbox_vars>>

\* lines 49-76: the stuck messages are written as failed, then the pending query
WorkerRecoverCommit(w) ==
    /\ workers[w].pc = "recover_commit"
    /\ LET table == [m \in DOMAIN scheduled_messages |->
                        IF m \in workers[w].stuck
                        THEN mark_failed(scheduled_messages[m], ErrTimedOut,
                                         workers[w].now)
                        ELSE scheduled_messages[m]]
       IN
       /\ scheduled_messages' = table
       /\ workers' = [workers EXCEPT ![w] = enter_loop(@, table)]
    /\ UNCHANGED <<clock, bulk_sends, cancel_request>>
    /\ UNCHANGED <<supp_vars, config, fn_call, job_vars, inbox_vars>>

\* lines 82-130: the next pending message is expired, or claimed by the
\* conditional update, or skipped when the update changed no row
WorkerLoopItem(w) ==
    /\ workers[w].pc = "loop"
    /\ LET worker == workers[w]
           m == current_id(worker)
           row == scheduled_messages[m]
       IN
       IF expiry_applies(row.scheduled_at, worker.now, config.max_lag)
       THEN /\ scheduled_messages' =
                   [scheduled_messages EXCEPT ![m] = mark_expired(row, worker.now)]
            /\ workers' = [workers EXCEPT ![w] = next_item(worker)]
       ELSE IF claim_rows(row.status) = 0
       THEN /\ workers' = [workers EXCEPT ![w] = next_item(worker)]
            /\ UNCHANGED scheduled_messages
       ELSE /\ scheduled_messages' =
                   [scheduled_messages EXCEPT ![m].status = "processing"]
            /\ workers' = [workers EXCEPT ![w].pc = "resolve"]
    /\ UNCHANGED <<clock, bulk_sends, cancel_request>>
    /\ UNCHANGED <<supp_vars, config, fn_call, job_vars, inbox_vars>>

\* lines 131-167: the recipients of the claimed message
WorkerResolve(w) ==
    /\ workers[w].pc = "resolve"
    /\ LET worker == workers[w]
           m == current_id(worker)
           row == scheduled_messages[m]
           recipient_data ==
               IF row.test_mode
               THEN <<[phone |-> config.admin_test_phone, name |-> "Admin Test"]>>
               ELSE resolve_recipients(row.target, row.event_id, CurrentDb)
       IN
       IF row.test_mode /\ config.admin_test_phone = ""
       THEN /\ scheduled_messages' =
                   [scheduled_messages EXCEPT
                       ![m] = mark_failed(row, ErrNoAdminPhone, worker.now)]
            /\ workers' = [workers EXCEPT ![w] = next_item(worker)]
       ELSE IF recipient_data = <<>>
       THEN /\ scheduled_messages' =
                   [scheduled_messages EXCEPT
                       ![m] = mark_failed(row, ErrNoRecipients, worker.now)]
            /\ workers' = [workers EXCEPT ![w] = next_item(worker)]
       ELSE /\ workers' = [workers EXCEPT ![w] =
                              [@ EXCEPT !.pc = "send",
                                        !.recipient_data = recipient_data]]
            /\ UNCHANGED scheduled_messages
    /\ UNCHANGED <<clock, bulk_sends, cancel_request>>
    /\ UNCHANGED <<supp_vars, config, fn_call, job_vars, inbox_vars>>

\* lines 169-209: the bulk send, the MessageLog, the sent status and the
\* suppression engine; any exception marks the message failed
WorkerSend(w) ==
    /\ workers[w].pc = "send"
    /\ LET worker == workers[w]
           m == current_id(worker)
           row == scheduled_messages[m]
           log_id == Len(message_logs) + 1
       IN
       IF ~config.twilio_configured
       THEN /\ scheduled_messages' =
                   [scheduled_messages EXCEPT
                       ![m] = mark_failed(row, ErrCredentials, worker.now)]
            /\ UNCHANGED <<bulk_sends, message_logs, supp_vars>>
       ELSE \E outcomes \in [1..Len(worker.recipient_data) -> SchedulerOutcomes],
               raised \in BOOLEAN :
            LET result == send_bulk(NoResults, worker.recipient_data, outcomes)
                sent == mark_sent(row, worker.now, log_id)
            IN
            /\ bulk_sends' = Append(bulk_sends,
                                    [id |-> m, worker |-> w,
                                     recipient_data |-> worker.recipient_data])
            /\ message_logs' =
                   Append(message_logs,
                          [status |-> "sent",
                           total_recipients |-> Len(worker.recipient_data),
                           success_count |-> result.success_count,
                           failure_count |-> result.failure_count,
                           details |-> result.details])
            /\ IF raised
               THEN /\ scheduled_messages' =
                           [scheduled_messages EXCEPT
                               ![m] = mark_failed(sent, ErrPostProcessing, worker.now)]
                    /\ UNCHANGED db_tables
                    /\ RecordPfdCall(result.details, log_id, TRUE,
                                     pfd_zero_counts(result.details))
               ELSE LET r == process_failure_details(result.details, log_id,
                                                     CurrentDb) IN
                    /\ scheduled_messages' = [scheduled_messages EXCEPT ![m] = sent]
                    /\ SetDb(r.db)
                    /\ RecordPfdCall(result.details, log_id, FALSE, r.counts)
    /\ workers' = [workers EXCEPT ![w] = next_item(workers[w])]
    /\ UNCHANGED <<clock, cancel_request, config, fn_call, job, inbox_vars>>

(***************************************************************************)
(* Specification SpecSched: operators schedule and cancel messages while   *)
(* two scheduler processes run ticks and time passes                       *)
(***************************************************************************)
SchedulerTables ==
    /\ unsubscribed = {}
    /\ suppressed = {}
    /\ community_members = {[phone |-> p, name |-> ""] : p \in {Phone1, Phone2}}
    /\ event_registrations = {[event_id |-> 1, phone |-> Phone1, name |-> ""]}

\* the messages the operator schedules, in this order: one to the community
\* and one to event 1 in test mode
ScheduleRequests ==
    <<[target |-> "community", event_id |-> 0, test_mode |-> FALSE],
      [target |-> "event", event_id |-> 1, test_mode |-> TRUE]>>

InitSched ==
    /\ fn_call = NoFnCall
    /\ SchedulerTables
    /\ pfd_call = NoPfdCall
    /\ \E twilio_configured \in BOOLEAN, admin_test_phone \in {"", Phone3},
          max_lag \in {0, 5} :
           config = Config(twilio_configured, admin_test_phone, max_lag, TRUE)
    /\ IdleDispatch /\ IdleScheduler /\ IdleInbox

NextSched ==
    \/ \E n \in DOMAIN ScheduleRequests :
           /\ n = Len(scheduled_messages) + 1
           /\ ScheduleMessage(ScheduleRequests[n].target, ScheduleRequests[n].event_id,
                              ScheduleRequests[n].test_mode, clock + 5)
    \/ \E scheduled_id \in DOMAIN ScheduleRequests : ScheduledCancel(scheduled_id)
    \/ ClockTick
    \/ \E w \in Workers : WorkerBegin(w)
    \/ \E w \in Workers : WorkerRecoverQuery(w)
    \/ \E w \in Workers : WorkerRecoverCommit(w)
    \/ \E w \in Workers : WorkerLoopItem(w)
    \/ \E w \in Workers : WorkerResolve(w)
    \/ \E w \in Workers : WorkerSend(w)

SpecSched == InitSched /\ [][NextSched]_vars

(***************************************************************************)
(* Claims about the scheduler (checked under SpecSched)                    *)
(***************************************************************************)
\* worker w has claimed message m and has not yet written its outcome
Processing(w, m) ==
    /\ workers[w].pc \in {"resolve", "send"}
    /\ current_id(workers[w]) = m

\* worker w is at message m of its pending rows, about to expire or claim it
AtItem(w, m) ==
    /\ workers[w].pc = "loop"
    /\ current_id(workers[w]) = m

\* m is beyond the max-lag window of the tick worker w is running
BeyondMaxLag(w, m) ==
    /\ config.max_lag > 0
    /\ scheduled_messages[m].scheduled_at < workers[w].now - config.max_lag

BulkSendsOf(m) == {i \in DOMAIN bulk_sends : bulk_sends[i].id = m}

\* C1: when several workers run a tick at once and reach the same due pending
\* message, the conditional pending->processing update changes the row for the
\* worker that finds it pending, which then processes it; a worker that finds it
\* no longer pending changes nothing and moves on to its next row; and never are
\* two workers processing the same message.
C1_ExactlyOneWorkerClaims ==
    /\ [](\A m \in DOMAIN scheduled_messages : \A w1, w2 \in Workers :
            Processing(w1, m) /\ Processing(w2, m) => w1 = w2)
    /\ [][\A w \in Workers : \A m \in DOMAIN scheduled_messages :
            AtItem(w, m) /\ ~BeyondMaxLag(w, m) /\ workers'[w] # workers[w] =>
                IF scheduled_messages[m].status = "pending"
                THEN /\ scheduled_messages'[m].status = "processing"
                     /\ workers'[w].pc = "resolve"
                     /\ current_id(workers'[w]) = m
                ELSE /\ scheduled_messages' = scheduled_messages
                     /\ bulk_sends' = bulk_sends
                     /\ workers'[w] = next_item(workers[w])]_vars

\* both workers found messages 1 and 2 pending; w1 claimed message 1 and is
\* processing it, w2 got zero rows for it and has moved on to message 2
C1_Witness ==
    /\ config.max_lag = 0
    /\ Processing("w1", 1)
    /\ scheduled_messages[1].status = "processing"
    /\ workers["w2"].pc = "loop"
    /\ workers["w2"].pending = <<1, 2>>
    /\ workers["w2"].idx = 2

\* C2: whatever the interleaving of the ticks of the workers and of operator
\* cancellations, the provider's bulk send is invoked at most once for a
\* scheduled message.
C2_BulkSendAtMostOnce ==
    \A m \in DOMAIN scheduled_messages : Cardinality(BulkSendsOf(m)) <= 1

\* w1 has sent message 1 while w2, which also found it pending, still has to
\* attempt its claim
C2_Witness ==
    /\ BulkSendsOf(1) = {1}
    /\ bulk_sends[1].worker = "w1"
    /\ scheduled_messages[1].status = "sent"
    /\ AtItem("w2", 1)
    /\ ~BeyondMaxLag("w2", 1)

\* C10: a tick finds every pending message that is due, and for each one whose
\* scheduled time is older than the tick's now minus the configured max lag it
\* writes status expired with an error message, does not claim it and makes no
\* provider call for it; the tick ends only after the last row it found.
C10_StaleMessagesExpireUnsent ==
    [][\A w \in Workers :
          /\ \A m \in DOMAIN scheduled_messages :
                AtItem(w, m) /\ BeyondMaxLag(w, m) /\ workers'[w] # workers[w] =>
                    /\ scheduled_messages'[m].status = "expired"
                    /\ scheduled_messages'[m].error_message # ""
                    /\ scheduled_messages'[m].sent_at = workers[w].now
                    /\ workers'[w] = next_item(workers[w])
                    /\ bulk_sends' = bulk_sends
          /\ workers[w].pc \in {"recover", "recover_commit"}
               /\ workers'[w].pc \in {"loop", "idle"} =>
                    \A m \in DOMAIN scheduled_messages :
                        /\ scheduled_messages'[m].status = "pending"
                        /\ scheduled_messages'[m].scheduled_at <= workers[w].now
                        => /\ workers'[w].pc = "loop"
                           /\ \E i \in DOMAIN workers'[w].pending :
                                  workers'[w].pending[i] = m
          /\ workers[w].pc \in {"loop", "resolve", "send"}
               /\ workers'[w].pc = "idle" =>
                    workers[w].idx = Len(workers[w].pending)
      ]_vars

\* with a max lag of 5 minutes, a message 10 minutes late is expired and unsent
C10_Witness ==
    /\ config.max_lag = 5
    /\ scheduled_messages # <<>>
    /\ scheduled_messages[1].status = "expired"
    /\ scheduled_messages[1].error_message = ErrExpired
    /\ scheduled_messages[1].sent_at - scheduled_messages[1].scheduled_at = 10
    /\ BulkSendsOf(1) = {}

(***************************************************************************)
(* utils.py normalize_keyword: upper-case, every run of whitespace         *)
(* collapsed to one space, trimmed ((raw or '').upper().split() joined by  *)
(* single spaces)                                                          *)
(***************************************************************************)
IsSpace(c) == c \in {" ", "\t", "\n"}

UpperText(s) == [i \in 1..Len(s) |-> UpperChar(s[i])]

RECURSIVE DropSpaces(_)
DropSpaces(s) == IF s # <<>> /\ IsSpace(Head(s)) THEN DropSpaces(Tail(s)) ELSE s

\* the words of s joined by single spaces
RECURSIVE JoinWords(_)
JoinWords(s) ==
    IF s = <<>> THEN <<>>
    ELSE IF IsSpace(Head(s))
    THEN LET rest == DropSpaces(s) IN
         IF rest = <<>> THEN <<>> ELSE <<" ">> \o JoinWords(rest)
    ELSE <<Head(s)>> \o JoinWords(Tail(s))

normalize_keyword(raw) == JoinWords(DropSpaces(UpperText(raw)))

(***************************************************************************)
(* inbox_service.py: keywords                                              *)
(***************************************************************************)
STOP_KEYWORDS_without_cancel == {"STOP", "STOPALL", "UNSUBSCRIBE", "END", "QUIT"}

STOP_KEYWORDS == {"STOP", "STOPALL", "UNSUBSCRIBE", "CANCEL", "END", "QUIT"}
START_KEYWORDS == {"START", "UNSTOP", "YES"}
SURVEY_CANCEL_KEYWORDS == {"CANCEL", "QUIT"}

\* normalized.split(' ', 1)[0]
RECURSIVE FirstWord(_)
FirstWord(s) ==
    IF s = <<>> \/ Head(s) = " " THEN <<>> ELSE <<Head(s)>> \o FirstWord(Tail(s))

\* lines 25-33, on the characters of the text
keyword_candidates(text) ==
    LET normalized == normalize_keyword(text)
        first_word == FirstWord(normalized)
    IN IF normalized = <<>> THEN <<>>
       ELSE IF first_word # normalized THEN <<Str(normalized), Str(first_word)>>
       ELSE <<Str(normalized)>>

\* the message texts the inbound webhook is exercised with
InboundBodies == {" stop", "CANCEL", "start", "JOIN", "poll  now", "hours", "Blue"}

\* the message texts a phone in a survey is exercised with
CancelBodies == {"JOIN", "CANCEL", "quit", "Blue"}

\* the message texts a phone opts out and in again with
StartBodies == {" stop", "start", "UNSTOP", "yes", "JOIN"}

\* Body.strip(), normalize_keyword and keyword_candidates tabulated over them
KeywordTexts == InboundBodies \cup CancelBodies \cup StartBodies
StrippedBody == [s \in KeywordTexts |-> Str(Strip(Chars[s]))]
NormalizedKeyword == [s \in KeywordTexts |-> Str(normalize_keyword(Strip(Chars[s])))]
KeywordCandidates == [s \in KeywordTexts |-> keyword_candidates(Strip(Chars[s]))]

(***************************************************************************)
(* Automation fixtures (models.py SurveyFlow, KeywordAutomationRule): a    *)
(* two-question survey, a one-question survey without intro, and one       *)
(* keyword rule.  The survey form refuses a survey without questions.      *)
(***************************************************************************)
SurveyFlows ==
    <<[trigger_keyword |-> "JOIN", intro_message |-> "Welcome",
       questions |-> <<"Name?", "Email?">>, completion_message |-> "Thanks",
       is_active |-> TRUE, start_count |-> 0, completion_count |-> 0,
       linked_event_id |-> NoId],
      [trigger_keyword |-> "POLL", intro_message |-> "",
       questions |-> <<"Vote?">>, completion_message |-> "Noted",
       is_active |-> TRUE, start_count |-> 0, completion_count |-> 0,
       linked_event_id |-> NoId]>>

KeywordRules ==
    <<[keyword |-> "HOURS", response_body |-> "Open 9-5", is_active |-> TRUE,
       match_count |-> 0]>>

Automation == [survey_flows |-> SurveyFlows, keyword_rules |-> KeywordRules]

(***************************************************************************)
(* inbox_service.py: the helpers of process_inbound_sms.  They work on the *)
(* session state ib = [threads, messages, sessions, responses, automation, *)
(* unsubscribed, replies]; replies lists the automated replies of the      *)
(* current call with the result of each.  utc_now() is now.                *)
(***************************************************************************)
\* F applied to the value of x: x is evaluated once, however often F uses it
Then(x, F(_)) == CHOOSE r \in {F(v) : v \in {x}} : TRUE

NoSid == 0
NoPayload == [From |-> "", Body |-> "", MessageSid |-> NoSid]

\* the sid the provider gives a message it created: unlike every stored sid
provider_sid(messages) == 0 - (Len(messages) + 1)

thread_of(threads, phone) == FirstRow({t \in threads : t.phone = phone})

\* lines 83-97 (the payloads carry no ProfileName)
get_or_create_thread(ib, phone, now) ==
    IF \E t \in ib.threads : t.phone = phone THEN ib
    ELSE [ib EXCEPT !.threads = @ \cup
             {[id |-> NextId(ib.threads), phone |-> phone, unread_count |-> 0,
               last_message_at |-> now, last_message_preview |-> "",
               last_direction |-> ""]}]

\* InboxMessage.query.filter_by(message_sid=...).first() finds a row
has_message_sid(messages, message_sid) ==
    \E i \in DOMAIN messages : messages[i].message_sid = message_sid

\* lines 317-320: the payload's message id is already stored
is_duplicate_never(messages, message_sid) == FALSE

is_duplicate(messages, message_sid) ==
    message_sid # NoSid /\ has_message_sid(messages, message_sid)

\* lines 100-148
\* the arguments after body are message_sid, automation_source,
\* automation_source_id, delivery_status, delivery_error and raw_payload
append_inbox_message(ib0, phone, direction, body, sid, source, source_id, status, error, raw, now) ==
    Then(ib0, LAMBDA ib :
    LET thread == thread_of(ib.threads, phone)
        resolved_message_sid ==
            IF sid # NoSid /\ has_message_sid(ib.messages, sid)
            THEN NoSid ELSE sid
        message == [thread_id |-> thread.id, phone |-> phone, direction |-> direction,
                    body |-> body, message_sid |-> resolved_message_sid,
                    automation_source |-> source,
                    automation_source_id |-> source_id,
                    matched_keyword |-> "", delivery_status |-> status,
                    delivery_error |-> error, raw_payload |-> raw]
        rolled == [thread EXCEPT
                      !.last_message_at = now,
                      !.last_message_preview = body,
                      !.last_direction = direction,
                      !.unread_count = IF direction = "inbound" THEN @ + 1 ELSE @]
    IN [ib EXCEPT !.messages = Append(@, message),
                  !.threads = (@ \ {thread}) \cup {rolled}])

\* lines 151-194; outcome is what the provider does with the reply
send_automated_reply_ignoring_config(ib0, phone, body, source, source_id, outcome, now) ==
    Then(ib0, LAMBDA ib :
    IF body = ""
    THEN [ib EXCEPT !.replies = Append(@, [source |-> source, body |-> body,
                                           status |-> "skipped", provider |-> FALSE])]
    ELSE LET result == send_message(outcome, FALSE)
             created == result.success = "True"
             status == IF created THEN "queued" ELSE "failed"
         IN [append_inbox_message(ib, phone, "outbound", body,
                                  IF created THEN provider_sid(ib.messages) ELSE NoSid,
                                  source, source_id, status, result.error, NoPayload,
                                  now)
                EXCEPT !.replies = Append(@, [source |-> source, body |-> body,
                                              status |-> status, provider |-> TRUE])])

send_automated_reply(ib0, phone, body, source, source_id, outcome, now) ==
    Then(ib0, LAMBDA ib :
    IF body = ""
    THEN [ib EXCEPT !.replies = Append(@, [source |-> source, body |-> body,
                                           status |-> "skipped", provider |-> FALSE])]
    ELSE IF ~config.auto_reply_enabled
    THEN [append_inbox_message(ib, phone, "outbound", body, NoSid, source, source_id,
                               "disabled", "auto_reply_disabled", NoPayload, now)
             EXCEPT !.replies = Append(@, [source |-> source, body |-> body,
                                           status |-> "disabled", provider |-> FALSE])]
    ELSE IF ~config.twilio_configured
    THEN [append_inbox_message(ib, phone, "outbound", body, NoSid, source, source_id,
                               "failed", ErrCredentials, NoPayload, now)
             EXCEPT !.replies = Append(@, [source |-> source, body |-> body,
                                           status |-> "failed", provider |-> FALSE])]
    ELSE LET result == send_message(outcome, FALSE)
             created == result.success = "True"
             status == IF created THEN "queued" ELSE "failed"
         IN [append_inbox_message(ib, phone, "outbound", body,
                                  IF created THEN provider_sid(ib.messages) ELSE NoSid,
                                  source, source_id, status, result.error, NoPayload,
                                  now)
                EXCEPT !.replies = Append(@, [source |-> source, body |-> body,
                                              status |-> status, provider |-> TRUE])])

RECURSIVE send_automated_replies(_, _, _, _, _, _, _)
send_automated_replies(ib, phone, bodies, source, source_id, outcome, now) ==
    IF bodies = <<>> THEN ib
    ELSE send_automated_replies(
             send_automated_reply(ib, phone, Head(bodies), source, source_id, outcome,
                                  now),
             phone, Tail(bodies), source, source_id, outcome, now)

\* lines 197-209
upsert_unsubscribed(rows, phone, reason) ==
    LET matches == {r \in rows : r.phone = phone} IN
    IF matches # {}
    THEN LET entry == FirstRow(matches) IN
         (rows \ {entry}) \cup
         {[entry EXCEPT !.reason = IF reason # "" THEN reason ELSE @,
                        !.source = "inbound"]}
    ELSE rows \cup {[id |-> NextId(rows), name |-> "", phone |-> phone,
                     reason |-> reason, source |-> "inbound"]}

\* lines 212-217
remove_unsubscribed_keeps(rows, phone) == rows

remove_unsubscribed(rows, phone) ==
    LET matches == {r \in rows : r.phone = phone} IN
    IF matches = {} THEN rows ELSE rows \ {FirstRow(matches)}

ActiveSessions(sessions, phone) ==
    {i \in DOMAIN sessions : sessions[i].phone = phone /\ sessions[i].status = "active"}

\* lines 220-225: the id of the latest active session of the phone, NoId if none
active_session_none(sessions, phone) == NoId

active_session(sessions, phone) ==
    LET active == ActiveSessions(sessions, phone) IN
    IF active = {} THEN NoId
    ELSE CHOOSE i \in active :
             \A j \in active :
                 \/ sessions[j].started_at < sessions[i].started_at
                 \/ (sessions[j].started_at = sessions[i].started_at /\ j <= i)

\* lines 228-235
cancel_active_sessions_none(sessions, phone, now) == sessions

cancel_active_sessions(sessions, phone, now) ==
    [i \in DOMAIN sessions |->
        IF i \in ActiveSessions(sessions, phone)
        THEN [sessions[i] EXCEPT !.status = "cancelled", !.completed_at = now]
        ELSE sessions[i]]

\* lines 238-266: the session state after the start, and the replies to send
start_survey(ib0, survey_id, phone, now) ==
    Then(ib0, LAMBDA ib :
    LET survey == ib.automation.survey_flows[survey_id]
        thread == thread_of(ib.threads, phone)
        cancelled == cancel_active_sessions(ib.sessions, phone, now)
        session == [survey_id |-> survey_id, thread_id |-> thread.id, phone |-> phone,
                    status |-> "active", current_question_index |-> 0,
                    started_at |-> now, completed_at |-> NoTime]
        intro == IF survey.intro_message # "" THEN <<survey.intro_message>> ELSE <<>>
    IN
    IF survey.questions # <<>>
    THEN [ib |-> [ib EXCEPT
                     !.sessions = Append(cancelled, session),
                     !.automation.survey_flows[survey_id].start_count = @ + 1],
          replies |-> intro \o <<survey.questions[1]>>]
    ELSE [ib |-> [ib EXCEPT
                     !.sessions = Append(cancelled,
                                         [session EXCEPT !.status = "completed",
                                                         !.completed_at = now]),
                     !.automation.survey_flows[survey_id].start_count = @ + 1,
                     !.automation.survey_flows[survey_id].completion_count = @ + 1],
          replies |-> intro \o (IF survey.completion_message # ""
                                THEN <<survey.completion_message>> ELSE <<>>)])

\* lines 269-301
advance_survey_stays_active(ib0, session_id, inbound_text, now) ==
    Then(ib0, LAMBDA ib :
    LET session == ib.sessions[session_id]
        survey == ib.automation.survey_flows[session.survey_id]
        questions == survey.questions
        current_index == session.current_question_index + 1
    IN
    [ib |-> [ib EXCEPT
                !.responses = Append(@, [session_id |-> session_id,
                                         survey_id |-> session.survey_id,
                                         phone |-> session.phone,
                                         question_index |-> session.current_question_index,
                                         question_prompt |-> questions[current_index],
                                         answer |-> inbound_text]),
                !.sessions[session_id].current_question_index = current_index],
     replies |-> IF current_index < Len(questions)
                 THEN <<questions[current_index + 1]>>
                 ELSE <<survey.completion_message>>])

advance_survey(ib0, session_id, inbound_text, now) ==
    Then(ib0, LAMBDA ib :
    LET session == ib.sessions[session_id]
        survey == ib.automation.survey_flows[session.survey_id]
        questions == survey.questions
        answered == session.current_question_index < Len(questions)
        current_index == IF answered THEN session.current_question_index + 1
                         ELSE session.current_question_index
        responses == IF answered
                     THEN Append(ib.responses,
                                 [session_id |-> session_id,
                                  survey_id |-> session.survey_id,
                                  phone |-> session.phone,
                                  question_index |-> session.current_question_index,
                                  question_prompt |->
                                      questions[session.current_question_index + 1],
                                  answer |-> inbound_text])
                     ELSE ib.responses
    IN
    IF current_index < Len(questions)
    THEN [ib |-> [ib EXCEPT
                     !.responses = responses,
                     !.sessions[session_id].current_question_index = current_index],
          replies |-> <<questions[current_index + 1]>>]
    ELSE [ib |-> [ib EXCEPT
                     !.responses = responses,
                     !.sessions[session_id] =
                         [@ EXCEPT !.current_question_index = current_index,
                                   !.status = "completed", !.completed_at = now],
                     !.automation.survey_flows[session.survey_id].completion_count =
                         @ + 1],
          replies |-> IF survey.completion_message # ""
                      THEN <<survey.completion_message>> ELSE <<>>])

(***************************************************************************)
(* inbox_service.py: process_inbound_sms                                   *)
(***************************************************************************)
ReasonStop == "Inbound STOP keyword received"
ReplyUnsubscribed ==
    "You are unsubscribed and will no longer receive SMS alerts. Reply START to resubscribe."
ReplySurveyCancelled ==
    "Survey cancelled. Text the survey keyword again anytime to restart."
ReplyResubscribed == "You are resubscribed and can receive SMS alerts again."
ReplyAlreadySubscribed == "You are already subscribed and can receive SMS alerts."

InboxState ==
    [threads |-> inbox_threads, messages |-> inbox_messages,
     sessions |-> survey_sessions, responses |-> survey_responses,
     automation |-> automation, unsubscribed |-> unsubscribed,
     event_registrations |-> event_registrations, replies |-> <<>>]

\* the result dictionary the handler returns
InboundResult(status, reason, thread_id, phone, replies) ==
    [status |-> status, reason |-> reason, thread_id |-> thread_id, phone |-> phone,
     replies |-> replies]

\* lines 413-417: the active survey of the first candidate that triggers one
RECURSIVE find_survey(_, _)
find_survey(flows, candidates) ==
    IF candidates = <<>> THEN [survey_id |-> NoId, matched_keyword |-> ""]
    ELSE LET matches == {i \in DOMAIN flows :
                            /\ flows[i].trigger_keyword = Head(candidates)
                            /\ flows[i].is_active}
         IN IF matches # {}
            THEN [survey_id |-> CHOOSE i \in matches : \A j \in matches : i <= j,
                  matched_keyword |-> Head(candidates)]
            ELSE find_survey(flows, Tail(candidates))

\* lines 436-447: the active rule of the first candidate that has one
RECURSIVE find_rule(_, _)
find_rule(rules, candidates) ==
    IF candidates = <<>> THEN [rule_id |-> NoId, matched_keyword |-> ""]
    ELSE LET matches == {i \in DOMAIN rules :
                            /\ rules[i].keyword = Head(candidates)
                            /\ rules[i].is_active}
         IN IF matches # {}
            THEN [rule_id |-> CHOOSE i \in matches : \A j \in matches : j <= i,
                  matched_keyword |-> Head(candidates)]
            ELSE find_rule(rules, Tail(candidates))

\* lines 339-353
inbound_opt_out(ib, phone, outcome, now) ==
    [status |-> "opt_out", matched_keyword |-> "",
     ib |-> send_automated_reply(
                [ib EXCEPT !.unsubscribed = upsert_unsubscribed(@, phone, ReasonStop),
                           !.sessions = cancel_active_sessions(@, phone, now)],
                phone, ReplyUnsubscribed, "system", NoId, outcome, now)]

\* lines 354-371
inbound_survey_cancelled(ib, phone, session_id, outcome, now) ==
    [status |-> "survey_cancelled", matched_keyword |-> "",
     ib |-> send_automated_reply(
                [ib EXCEPT !.sessions[session_id] =
                               [@ EXCEPT !.status = "cancelled", !.completed_at = now]],
                phone, ReplySurveyCancelled, "survey", ib.sessions[session_id].survey_id,
                outcome, now)]

\* the name a registration gets: the first answer of the session
registration_name(responses, session_id) ==
    LET answers == SelectSeq(responses, LAMBDA r : r.session_id = session_id) IN
    IF answers = <<>> THEN "" ELSE answers[1].answer

\* a second row for the event and phone is added beside the one that exists
upsert_event_registration_insert(rows, event_id, phone, name) ==
    rows \cup {[event_id |-> event_id, phone |-> phone, name |-> name]}

\* the registration of the phone for the event is created, or updated by phone
upsert_event_registration(rows, event_id, phone, name) ==
    {r \in rows : ~(r.event_id = event_id /\ r.phone = phone)}
        \cup {[event_id |-> event_id, phone |-> phone, name |-> name]}

\* the completion of a session of a survey linked to an event registers the
\* phone for that event
register_linked_event(advanced0, session_id) ==
    Then(advanced0, LAMBDA advanced :
    LET session == advanced.ib.sessions[session_id]
        survey == advanced.ib.automation.survey_flows[session.survey_id]
    IN
    IF session.status = "completed" /\ survey.linked_event_id # NoId
    THEN [advanced EXCEPT !.ib.event_registrations =
             upsert_event_registration(@, survey.linked_event_id, session.phone,
                                       registration_name(advanced.ib.responses,
                                                         session_id))]
    ELSE advanced)

\* lines 373-389
inbound_survey_response(ib, phone, session_id, inbound_body, outcome, now) ==
    LET session == ib.sessions[session_id] IN
    Then(register_linked_event(advance_survey(ib, session_id, inbound_body, now),
                               session_id), LAMBDA advanced :
       [status |-> "survey_response",
        matched_keyword |-> ib.automation.survey_flows[session.survey_id].trigger_keyword,
        ib |-> send_automated_replies(advanced.ib, phone, advanced.replies, "survey",
                                      session.survey_id, outcome, now)])

\* lines 390-408
inbound_opt_in(ib, phone, outcome, now) ==
    LET was_unsubscribed == \E r \in ib.unsubscribed : r.phone = phone
        start_reply == IF was_unsubscribed THEN ReplyResubscribed
                       ELSE ReplyAlreadySubscribed
    IN [status |-> "opt_in", matched_keyword |-> "",
        ib |-> send_automated_reply(
                   [ib EXCEPT !.unsubscribed = remove_unsubscribed(@, phone)],
                   phone, start_reply, "system", NoId, outcome, now)]

\* lines 419-434
inbound_survey_started(ib, phone, found, outcome, now) ==
    Then(start_survey(ib, found.survey_id, phone, now), LAMBDA started :
       [status |-> "survey_started", matched_keyword |-> found.matched_keyword,
        ib |-> send_automated_replies(started.ib, phone, started.replies, "survey",
                                      found.survey_id, outcome, now)])

\* lines 435-464
inbound_keyword(ib, phone, candidates, outcome, now) ==
    LET found == find_rule(ib.automation.keyword_rules, candidates) IN
    IF found.rule_id = NoId
    THEN [status |-> "stored", matched_keyword |-> "", ib |-> ib]
    ELSE [status |-> "keyword_reply", matched_keyword |-> found.matched_keyword,
          ib |-> send_automated_reply(
                     [ib EXCEPT !.automation.keyword_rules[found.rule_id].match_count =
                                    @ + 1],
                     phone, ib.automation.keyword_rules[found.rule_id].response_body,
                     "keyword", found.rule_id, outcome, now)]

\* lines 333-464: the branch taken once the inbound message is stored
inbound_dispatch(ib0, phone, body, outcome, now) ==
    Then(ib0, LAMBDA ib :
    LET normalized == NormalizedKeyword[body]
        session == active_session(ib.sessions, phone)
        candidates == KeywordCandidates[body]
        found == find_survey(ib.automation.survey_flows, candidates)
    IN
    IF normalized \in STOP_KEYWORDS THEN inbound_opt_out(ib, phone, outcome, now)
    ELSE IF session # NoId /\ normalized \in SURVEY_CANCEL_KEYWORDS
    THEN inbound_survey_cancelled(ib, phone, session, outcome, now)
    ELSE IF session # NoId
    THEN inbound_survey_response(ib, phone, session, StrippedBody[body], outcome, now)
    ELSE IF normalized \in START_KEYWORDS THEN inbound_opt_in(ib, phone, outcome, now)
    ELSE IF found.survey_id # NoId
    THEN inbound_survey_started(ib, phone, found, outcome, now)
    ELSE inbound_keyword(ib, phone, candidates, outcome, now))

\* lines 304-475.  payload is [From, Body, MessageSid]; the result is the state
\* the handler commits and the dictionary it returns
process_inbound_sms(ib, payload, outcome, now) ==
    LET raw_from == payload.From
        phone == NormalizedPhone[raw_from]
    IN
    IF raw_from = ""
    THEN [ib |-> ib, result |-> InboundResult("ignored", "missing_from", NoId, "", <<>>)]
    ELSE IF ~ValidPhone[phone]
    THEN [ib |-> ib,
          result |-> InboundResult("ignored", "invalid_phone", NoId, phone, <<>>)]
    ELSE IF is_duplicate(ib.messages, payload.MessageSid)
    THEN LET existing == CHOOSE i \in DOMAIN ib.messages :
                             /\ ib.messages[i].message_sid = payload.MessageSid
                             /\ \A j \in DOMAIN ib.messages :
                                    ib.messages[j].message_sid = payload.MessageSid
                                        => i <= j
         IN [ib |-> ib,
             result |-> InboundResult("duplicate", "", ib.messages[existing].thread_id,
                                      "", <<>>)]
    ELSE Then(append_inbox_message(
                  get_or_create_thread(ib, phone, now), phone, "inbound",
                  StrippedBody[payload.Body], payload.MessageSid, "", NoId, "", "",
                  payload, now), LAMBDA stored :
         Then(inbound_dispatch(stored, phone, payload.Body, outcome, now), LAMBDA done :
         LET inbound_message == Len(stored.messages)
             committed ==
                 IF done.matched_keyword # ""
                 THEN [done.ib EXCEPT !.messages[inbound_message].matched_keyword =
                                          done.matched_keyword]
                 ELSE done.ib
         IN [ib |-> committed,
             result |-> InboundResult(done.status, "", thread_of(stored.threads, phone).id,
                                      phone, done.ib.replies)]))

(***************************************************************************)
(* The inbound webhook (routes.py twilio_inbound_webhook) as an action.    *)
(* inbound records the last call: its payload and the returned result.     *)
(***************************************************************************)
MaxInbound == 3

InboundFroms == {"", RawPhone1, Phone2, ShortPhone}
ReplyOutcomes == {o \in ProviderOutcomes : o.status \in {201, 400}}

CommitInbox(ib) ==
    /\ inbox_threads' = ib.threads
    /\ inbox_messages' = ib.messages
    /\ survey_sessions' = ib.sessions
    /\ survey_responses' = ib.responses
    /\ automation' = ib.automation
    /\ unsubscribed' = ib.unsubscribed
    /\ event_registrations' = ib.event_registrations

ProcessInboundSms(raw_from, body, message_sid, outcome) ==
    LET payload == [From |-> raw_from, Body |-> body, MessageSid |-> message_sid] IN
    /\ \E call \in {process_inbound_sms(InboxState, payload, outcome, clock)} :
       /\ CommitInbox(call.ib)
       /\ inbound' = [n |-> inbound.n + 1,
                      message_sid |-> message_sid, status |-> call.result.status,
                      reason |-> call.result.reason,
                      thread_id |-> call.result.thread_id,
                      phone |-> call.result.phone, replies |-> call.result.replies]
       /\ UNCHANGED <<suppressed, community_members, pfd_call>>
       /\ UNCHANGED <<config, fn_call, job_vars, sched_vars>>

\* the provider delivers a new message: its message id is a new one
InboundDeliver ==
    /\ inbound.n < MaxInbound
    /\ \E raw_from \in InboundFroms, body \in InboundBodies, outcome \in ReplyOutcomes :
           ProcessInboundSms(raw_from, body, inbound.n + 1, outcome)

\* the provider delivers again a message it has delivered before
InboundRedeliver ==
    /\ inbound.n < MaxInbound
    /\ \E i \in DOMAIN inbox_messages, outcome \in ReplyOutcomes :
        /\ inbox_messages[i].direction = "inbound"
        /\ ProcessInboundSms(inbox_messages[i].raw_payload.From,
                             inbox_messages[i].raw_payload.Body,
                             inbox_messages[i].raw_payload.MessageSid, outcome)

InitInbox ==
    /\ fn_call = NoFnCall
    /\ IdleSupp /\ IdleDispatch /\ IdleScheduler
    /\ config \in {Config(TRUE, "", 0, auto_reply_enabled) :
                      auto_reply_enabled \in BOOLEAN}
    /\ inbox_threads = {} /\ inbox_messages = <<>>
    /\ survey_sessions = <<>> /\ survey_responses = <<>>
    /\ automation = Automation
    /\ inbound = NoInbound

NextInbox ==
    \/ InboundDeliver
    \/ InboundRedeliver

SpecInbox == InitInbox /\ [][NextInbox]_vars

(***************************************************************************)
(* _start_survey applied on its own: the helper takes any phone with a     *)
(* thread, whether or not the phone has an active session.                 *)
(***************************************************************************)
StartSurvey(survey_id, phone, outcome) ==
    /\ inbound.n < MaxInbound
    /\ \E t \in inbox_threads : t.phone = phone
    /\ \E started \in {start_survey(InboxState, survey_id, phone, clock)} :
       \E sent \in {send_automated_replies(started.ib, phone, started.replies, "survey",
                                           survey_id, outcome, clock)} :
       /\ CommitInbox(sent)
       /\ inbound' = [n |-> inbound.n + 1,
                      message_sid |-> NoSid, status |-> "start_survey",
                      reason |-> "", thread_id |-> thread_of(inbox_threads, phone).id,
                      phone |-> phone, replies |-> sent.replies]
       /\ UNCHANGED <<suppressed, community_members, pfd_call>>
       /\ UNCHANGED <<config, fn_call, job_vars, sched_vars>>

SurveyStart ==
    \E survey_id \in DOMAIN automation.survey_flows, phone \in {Phone1, Phone2},
       outcome \in ReplyOutcomes :
        StartSurvey(survey_id, phone, outcome)

NextSurvey ==
    \/ InboundDeliver
    \/ InboundRedeliver
    \/ SurveyStart

SpecSurvey == InitInbox /\ [][NextSurvey]_vars

(***************************************************************************)
(* Properties of the inbound webhook                                       *)
(***************************************************************************)
\* the step is a call of the webhook / of _start_survey
InboundCall == inbound'.n # inbound.n

\* the inbound message the call has stored; used only where one was stored
StoredInbound == inbox_messages'[Len(inbox_messages) + 1]

StoresInbound ==
    /\ InboundCall
    /\ Len(inbox_messages') > Len(inbox_messages)
    /\ StoredInbound.direction = "inbound"

HasUnsubscribed(rows, phone) == \E r \in rows : r.phone = phone

\* C5: processing an inbound message whose provider message id is already
\* stored returns status duplicate and changes nothing: no message is added,
\* the thread's unread count and rollup, the survey sessions and responses,
\* the suppression records and the counters stay as they were, and no reply
\* is sent.
C5_DuplicateIsNoOp ==
    [][(/\ InboundCall
        /\ inbound'.message_sid # NoSid
        /\ has_message_sid(inbox_messages, inbound'.message_sid))
       => /\ inbound'.status = "duplicate"
          /\ inbound'.replies = <<>>
          /\ \E i \in DOMAIN inbox_messages :
                 /\ inbox_messages[i].message_sid = inbound'.message_sid
                 /\ inbox_messages[i].thread_id = inbound'.thread_id
          /\ UNCHANGED <<inbox_threads, inbox_messages, survey_sessions,
                         survey_responses, automation, unsubscribed, suppressed>>]_vars

\* a survey keyword delivered twice: one session, one start counted
C5_Witness ==
    /\ inbound.status = "duplicate"
    /\ \E i \in DOMAIN inbox_messages :
           /\ inbox_messages[i].message_sid = inbound.message_sid
           /\ inbox_messages[i].matched_keyword = "JOIN"
           /\ inbox_messages[i].thread_id = inbound.thread_id
    /\ Len(survey_sessions) = 1
    /\ automation.survey_flows[1].start_count = 1

\* C6: each phone has at most one active survey session, and a step that
\* starts a survey for a phone sets every session of the phone that was active
\* to cancelled with completed_at set, leaves the other sessions alone and
\* adds the new session as the active one.
C6_OneActiveSessionPerPhone ==
    /\ [](\A p \in Phones : Cardinality(ActiveSessions(survey_sessions, p)) <= 1)
    /\ [][Len(survey_sessions') # Len(survey_sessions)
          => LET new == Len(survey_sessions) + 1
                 phone == survey_sessions'[new].phone
             IN /\ Len(survey_sessions') = new
                /\ survey_sessions'[new].status = "active"
                /\ ActiveSessions(survey_sessions', phone) = {new}
                /\ \A i \in DOMAIN survey_sessions :
                       IF i \in ActiveSessions(survey_sessions, phone)
                       THEN /\ survey_sessions'[i].status = "cancelled"
                            /\ survey_sessions'[i].completed_at # NoTime
                       ELSE survey_sessions'[i] = survey_sessions[i]]_vars

\* a survey started for a phone in the middle of another survey
C6_Witness ==
    /\ inbound.status = "start_survey"
    /\ \E i, j \in DOMAIN survey_sessions :
           /\ i < j
           /\ survey_sessions[i].phone = survey_sessions[j].phone
           /\ survey_sessions[i].status = "cancelled"
           /\ survey_sessions[i].completed_at # NoTime
           /\ survey_sessions[i].current_question_index = 1
           /\ survey_sessions[j].status = "active"

C7_StopFamily == {"STOP", "STOPALL", "UNSUBSCRIBE", "CANCEL", "END", "QUIT"}

\* C7: a STOP-family keyword from a phone with an active survey session is
\* answered with status opt_out, cancels the session with completed_at set and
\* leaves an UnsubscribedContact for the phone; a START from the phone after
\* that removes the UnsubscribedContact and leaves the sessions as they are,
\* so the phone has no active session.
C7_StopCancelsStartDoesNotResurrect ==
    [][/\ (/\ StoresInbound
           /\ NormalizedKeyword[StoredInbound.raw_payload.Body] \in C7_StopFamily
           /\ ActiveSessions(survey_sessions, StoredInbound.phone) # {})
          => /\ inbound'.status = "opt_out"
             /\ \A i \in ActiveSessions(survey_sessions, StoredInbound.phone) :
                    /\ survey_sessions'[i].status = "cancelled"
                    /\ survey_sessions'[i].completed_at # NoTime
             /\ ActiveSessions(survey_sessions', StoredInbound.phone) = {}
             /\ HasUnsubscribed(unsubscribed', StoredInbound.phone)
       /\ (/\ StoresInbound
           /\ NormalizedKeyword[StoredInbound.raw_payload.Body] = "START"
           /\ HasUnsubscribed(unsubscribed, StoredInbound.phone)
           /\ ActiveSessions(survey_sessions, StoredInbound.phone) = {})
          => /\ inbound'.status = "opt_in"
             /\ ~HasUnsubscribed(unsubscribed', StoredInbound.phone)
             /\ survey_sessions' = survey_sessions
             /\ ActiveSessions(survey_sessions', StoredInbound.phone) = {}]_vars

\* JOIN, then CANCEL in the middle of the survey, then START
C7_Witness ==
    /\ inbound.status = "opt_in"
    /\ inbound.replies # <<>>
    /\ inbound.replies[1].body = ReplyResubscribed
    /\ ~HasUnsubscribed(unsubscribed, inbound.phone)
    /\ ActiveSessions(survey_sessions, inbound.phone) = {}
    /\ \E i \in DOMAIN survey_sessions :
           /\ survey_sessions[i].phone = inbound.phone
           /\ survey_sessions[i].status = "cancelled"
           /\ survey_sessions[i].completed_at # NoTime
    /\ \E i \in DOMAIN inbox_messages :
           /\ inbox_messages[i].phone = inbound.phone
           /\ inbox_messages[i].direction = "inbound"
           /\ inbox_messages[i].body = "CANCEL"

(***************************************************************************)
(* Specification SpecOps: one scheduler process that may crash in the      *)
(* middle of a tick, an operator who schedules and cancels, and recipient  *)
(* tables with unsubscribed and suppressed numbers                         *)
(***************************************************************************)
\* routes.py scheduled_cancel: the table after a cancel request for the id
scheduled_cancel_any_status(table, scheduled_id) ==
    [table EXCEPT ![scheduled_id].status = "cancelled"]

scheduled_cancel(table, scheduled_id) ==
    IF table[scheduled_id].status \notin {"pending", "processing"}
    THEN table
    ELSE [table EXCEPT ![scheduled_id].status = "cancelled"]

\* the request, whatever the status of the message; the request and the status
\* it found are recorded
ScheduledCancelRequest(scheduled_id) ==
    /\ scheduled_id \in DOMAIN scheduled_messages
    /\ scheduled_messages' = scheduled_cancel(scheduled_messages, scheduled_id)
    /\ cancel_request' = [scheduled_id |-> scheduled_id,
                          status |-> scheduled_messages[scheduled_id].status]
    /\ UNCHANGED <<workers, clock, bulk_sends>>
    /\ UNCHANGED <<supp_vars, config, fn_call, job_vars, inbox_vars>>

\* the process dies between the commit of its claim (line 124) and the commit
\* of the outcome (lines 139, 164, 190, 204); it is started again and idle
WorkerCrash(w) ==
    /\ workers[w].pc \in {"resolve", "send"}
    /\ workers' = [workers EXCEPT ![w] = IdleWorker]
    /\ UNCHANGED <<scheduled_messages, clock, bulk_sends, cancel_request>>
    /\ UNCHANGED <<supp_vars, config, fn_call, job_vars, inbox_vars>>

OpsWorker == "w1"

UnsubscribedRow(id, phone) ==
    [id |-> id, name |-> "", phone |-> phone, reason |-> "", source |-> "manual"]

SuppressedRow(id, phone) ==
    [id |-> id, phone |-> phone, reason |-> ErrInvalidNumber, category |-> "hard_fail",
     source |-> "message_failure", source_type |-> "message_log",
     source_message_log_id |-> NoId]

\* Phone1 and the admin test number are unsubscribed; Phone2 may be suppressed
OpsTables ==
    /\ unsubscribed = {UnsubscribedRow(1, Phone1), UnsubscribedRow(2, Phone3)}
    /\ suppressed \in {{}, {SuppressedRow(1, Phone2)}}
    /\ community_members = {[phone |-> p, name |-> ""] : p \in {Phone1, Phone2}}
    /\ event_registrations = {[event_id |-> 1, phone |-> Phone1, name |-> ""]}

InitOps ==
    /\ fn_call = NoFnCall
    /\ OpsTables
    /\ pfd_call = NoPfdCall
    /\ \E admin_test_phone \in {"", Phone3}, max_lag \in {0, 5} :
           config = Config(TRUE, admin_test_phone, max_lag, TRUE)
    /\ IdleDispatch /\ IdleScheduler /\ IdleInbox

OpsSchedule ==
    \E n \in DOMAIN ScheduleRequests :
        /\ n = Len(scheduled_messages) + 1
        /\ ScheduleMessage(ScheduleRequests[n].target, ScheduleRequests[n].event_id,
                           ScheduleRequests[n].test_mode, clock + 5)

OpsCancel == \E scheduled_id \in DOMAIN ScheduleRequests : ScheduledCancelRequest(scheduled_id)

OpsTick ==
    \/ WorkerBegin(OpsWorker)
    \/ WorkerRecoverQuery(OpsWorker)
    \/ WorkerRecoverCommit(OpsWorker)
    \/ WorkerLoopItem(OpsWorker)
    \/ WorkerResolve(OpsWorker)
    \/ WorkerSend(OpsWorker)

NextOps ==
    \/ OpsSchedule
    \/ OpsCancel
    \/ ClockTick
    \/ OpsTick
    \/ WorkerCrash(OpsWorker)

SpecOps == InitOps /\ [][NextOps]_vars

\* scheduler ticks keep running and time passes
SpecOpsFair ==
    /\ SpecOps
    /\ WF_vars(ClockTick)
    /\ WF_vars(OpsTick)

\* C11: a cancellation request sets a scheduled message to cancelled only if
\* the message is pending or processing when the request is made; a request
\* for a message that is sent, failed, expired or already cancelled leaves the
\* table as it is.
C11_CancelOnlyPendingOrProcessing ==
    [][/\ \A m \in DOMAIN scheduled_messages :
              (/\ scheduled_messages'[m].status = "cancelled"
               /\ scheduled_messages[m].status # "cancelled")
              => scheduled_messages[m].status \in {"pending", "processing"}
       /\ cancel_request' # cancel_request
          => LET m == cancel_request'.scheduled_id IN
             /\ cancel_request'.status = scheduled_messages[m].status
             /\ IF scheduled_messages[m].status \in {"pending", "processing"}
                THEN scheduled_messages' =
                         [scheduled_messages EXCEPT ![m].status = "cancelled"]
                ELSE scheduled_messages' = scheduled_messages]_vars

\* a request for a sent message, after a request that cancelled the other one
C11_Witness ==
    /\ cancel_request.status = "sent"
    /\ scheduled_messages[cancel_request.scheduled_id].status = "sent"
    /\ scheduled_messages[cancel_request.scheduled_id].message_log_id # NoId
    /\ \E m \in DOMAIN scheduled_messages : scheduled_messages[m].status = "cancelled"

InProcessing(m) ==
    /\ m \in DOMAIN scheduled_messages
    /\ scheduled_messages[m].status = "processing"

\* m was claimed and the process that claimed it is gone
Orphaned(m) ==
    /\ InProcessing(m)
    /\ \A w \in Workers : ~Processing(w, m)

\* the clock of the model gets as far as the timeout of m
TimeoutInReach(m) ==
    scheduled_messages[m].scheduled_at + ProcessingTimeoutMinutes <= 5 * MaxClockSteps

\* C12: a message left in processing by a crashed worker leaves processing
\* when ticks keep running and time passes, and the tick that takes it out of
\* processing marks it failed with the timed-out error, at a time at least
\* ten minutes after its scheduled time.
C12_CrashedClaimTimesOut ==
    /\ \A m \in DOMAIN ScheduleRequests :
           (Orphaned(m) /\ TimeoutInReach(m))
               ~> ~InProcessing(m)
    /\ [][\A m \in DOMAIN scheduled_messages :
              (/\ Orphaned(m)
               /\ scheduled_messages'[m].status \notin {"processing", "cancelled"})
              => /\ scheduled_messages'[m].status = "failed"
                 /\ scheduled_messages'[m].error_message = ErrTimedOut
                 /\ scheduled_messages'[m].sent_at >=
                        scheduled_messages[m].scheduled_at + ProcessingTimeoutMinutes]_vars

\* a message that timed out without having been sent
C12_Witness ==
    \E m \in DOMAIN scheduled_messages :
        /\ scheduled_messages[m].status = "failed"
        /\ scheduled_messages[m].error_message = ErrTimedOut
        /\ BulkSendsOf(m) = {}
        /\ workers[OpsWorker].pc = "idle"


(***************************************************************************)
(* Specification SpecClassify: classify_failure applied on its own to      *)
(* error texts put together from phrases of provider errors                *)
(***************************************************************************)
\* bound: the number of phrases in one error text
MaxPhrases == 3

\* "Reply STOP" holds an opt-out pattern, "Invalid number" and "Number is not
\* valid" hold hard-failure patterns, "Service unavailable: 503" holds
\* soft-failure patterns and "Blue" holds no pattern
OptOutPhrases == {ErrReplyStop}
HardFailPhrases == {ErrInvalidNumber, ErrNotValid}
ErrorPhrases == OptOutPhrases \cup HardFailPhrases \cup {ErrUnavailable, "Blue"}

\* the text of the phrases, separated by spaces
RECURSIVE ErrorText(_)
ErrorText(phrases) ==
    IF phrases = <<>> THEN <<>>
    ELSE IF Len(phrases) = 1 THEN Chars[phrases[1]]
    ELSE Chars[phrases[1]] \o <<" ">> \o ErrorText(Tail(phrases))

OptOutCategory == {"opt_out", "hard_fail", "soft_fail"}

InitClassify ==
    /\ \E phrases \in SeqsUpTo(ErrorPhrases, MaxPhrases) :
           fn_call = [fn |-> "classify_failure", error_text |-> phrases, returned |-> "none"]
    /\ config = Config(TRUE, "", 0, TRUE)
    /\ IdleSupp /\ IdleDispatch /\ IdleScheduler /\ IdleInbox

ClassifyFailure ==
    /\ fn_call.fn = "classify_failure"
    /\ fn_call.returned = "none"
    /\ \E category \in {classify_failure(ErrorText(fn_call.error_text))} :
           fn_call' = [fn_call EXCEPT !.returned = category]
    /\ UNCHANGED <<supp_vars, config, job_vars, sched_vars, inbox_vars>>

NextClassify == ClassifyFailure

SpecClassify == InitClassify /\ [][NextClassify]_vars

Classified == fn_call.fn = "classify_failure" /\ fn_call.returned # "none"

HasPhrase(phrases, wanted) == \E i \in 1..Len(phrases) : phrases[i] \in wanted

\* C18: classify_failure returns a category for every text: opt_out when the
\* lower-cased text contains an opt-out pattern, otherwise hard_fail when it
\* contains a hard-failure pattern, otherwise soft_fail.  The empty text and a
\* text holding no pattern are soft_fail, and a text holding both an opt-out
\* and a hard-failure pattern is opt_out.
C18_ClassifyByPriority ==
    Classified =>
        LET phrases == fn_call.error_text
            message == LowerText(ErrorText(phrases))
            opt_out == AnyPattern(opt_out_patterns, message)
            hard_fail == AnyPattern(hard_fail_patterns, message)
        IN
        /\ fn_call.returned \in OptOutCategory
        /\ fn_call.returned = "opt_out" <=> opt_out
        /\ fn_call.returned = "hard_fail" <=> (~opt_out /\ hard_fail)
        /\ fn_call.returned = "soft_fail" <=> (~opt_out /\ ~hard_fail)
        /\ phrases = <<>> => fn_call.returned = "soft_fail"
        /\ HasPhrase(phrases, OptOutPhrases) => fn_call.returned = "opt_out"
        /\ (HasPhrase(phrases, HardFailPhrases) /\ ~HasPhrase(phrases, OptOutPhrases))
               => fn_call.returned = "hard_fail"
        /\ (~HasPhrase(phrases, HardFailPhrases) /\ ~HasPhrase(phrases, OptOutPhrases))
               => fn_call.returned = "soft_fail"

\* "Invalid number Reply STOP" holds 'invalid' and 'stop': it is an opt-out
C18_Witness ==
    /\ Classified
    /\ fn_call.error_text = <<ErrInvalidNumber, ErrReplyStop>>
    /\ fn_call.returned = "opt_out"


(***************************************************************************)
(* Specification SpecFilter: the two recipient filters applied on their    *)
(* own to recipient lists, over tables that hold some of the phones        *)
(***************************************************************************)
\* bound: the length of the recipient list handed to a filter
MaxRecipients == 3

\* recipients as the callers build them: a phone and a name; one has no phone
FilterRecipients ==
    { [phone |-> Phone1, name |-> "Alex"], [phone |-> Phone2, name |-> ""],
      [phone |-> Phone3, name |-> ""], [phone |-> "", name |-> "Blair"] }

InitFilter ==
    /\ \E recipients \in SeqsUpTo(FilterRecipients, MaxRecipients) :
           fn_call = [fn |-> "filter_recipients", recipients |-> recipients,
                      filter |-> "none", filtered |-> <<>>, skipped |-> <<>>,
                      phones |-> {}]
    /\ unsubscribed \in {{}, {UnsubscribedRow(1, Phone1)},
                         {UnsubscribedRow(1, Phone1), UnsubscribedRow(2, Phone3)}}
    /\ suppressed \in {{}, {SuppressedRow(1, Phone2)}}
    /\ community_members = {} /\ event_registrations = {}
    /\ pfd_call = [n |-> 0]
    /\ config = Config(TRUE, "", 0, TRUE)
    /\ IdleDispatch /\ IdleScheduler /\ IdleInbox

FilterReturn(filter, r) ==
    /\ fn_call' = [fn_call EXCEPT !.filter = filter, !.filtered = r.filtered,
                                  !.skipped = r.skipped, !.phones = r.phones]
    /\ UNCHANGED <<supp_vars, config, job_vars, sched_vars, inbox_vars>>

FilterUnsubscribedRecipients ==
    /\ fn_call.fn = "filter_recipients"
    /\ fn_call.filter = "none"
    /\ \E r \in {filter_unsubscribed_recipients(fn_call.recipients, unsubscribed)} :
           FilterReturn("unsubscribed", r)

FilterSuppressedRecipients ==
    /\ fn_call.fn = "filter_recipients"
    /\ fn_call.filter = "none"
    /\ \E r \in {filter_suppressed_recipients(fn_call.recipients, suppressed)} :
           FilterReturn("suppressed", r)

NextFilter == FilterUnsubscribedRecipients \/ FilterSuppressedRecipients

SpecFilter == InitFilter /\ [][NextFilter]_vars

\* kept and removed split the recipients: going through the list in order, a
\* recipient whose phone is in the set is the next of removed and any other
\* recipient is the next of kept, and nothing else is in either list
RECURSIVE Partitions(_, _, _, _)
Partitions(recipients, kept, removed, phones) ==
    IF recipients = <<>> THEN kept = <<>> /\ removed = <<>>
    ELSE IF Head(recipients).phone \in phones
    THEN /\ removed # <<>>
         /\ Head(removed) = Head(recipients)
         /\ Partitions(Tail(recipients), kept, Tail(removed), phones)
    ELSE /\ kept # <<>>
         /\ Head(kept) = Head(recipients)
         /\ Partitions(Tail(recipients), Tail(kept), removed, phones)

Filtered(filter) == fn_call.fn = "filter_recipients" /\ fn_call.filter = filter

\* C19: each filter splits its input into a kept and a removed list that keep
\* the input order, share no recipient and together hold every input
\* recipient; a recipient is removed exactly when its phone has a row in the
\* filter's table; and the call leaves the tables as they were.
C19_FiltersPartitionInOrder ==
    /\ [](Filtered("unsubscribed") =>
             Partitions(fn_call.recipients, fn_call.filtered, fn_call.skipped,
                        {u.phone : u \in unsubscribed}))
    /\ [](Filtered("suppressed") =>
             Partitions(fn_call.recipients, fn_call.filtered, fn_call.skipped,
                        {u.phone : u \in suppressed}))
    /\ [][(fn_call.fn = "filter_recipients" /\ fn_call' # fn_call) =>
              /\ UNCHANGED db_tables
              /\ fn_call'.recipients = fn_call.recipients]_vars

\* of Phone3, no phone, Phone1 the unsubscribed filter removed Phone3 and Phone1
C19_Witness ==
    /\ Filtered("unsubscribed")
    /\ fn_call.recipients = <<[phone |-> Phone3, name |-> ""],
                              [phone |-> "", name |-> "Blair"],
                              [phone |-> Phone1, name |-> "Alex"]>>
    /\ fn_call.filtered = <<[phone |-> "", name |-> "Blair"]>>
    /\ fn_call.skipped = <<[phone |-> Phone3, name |-> ""],
                           [phone |-> Phone1, name |-> "Alex"]>>


(***************************************************************************)
(* Claims about the recipients of a scheduled message (under SpecOps)      *)
(***************************************************************************)
\* the phones with a row in unsubscribed_contacts or suppressed_contacts
BlockedPhones == {u.phone : u \in unsubscribed} \cup {u.phone : u \in suppressed}

\* the tick of worker w resolves the recipients of its message and goes on to send
Resolves(w) == workers[w].pc = "resolve" /\ workers'[w].pc = "send"

\* a bulk send reaches the provider
PassesToProvider == Len(bulk_sends') = Len(bulk_sends) + 1

\* C20: the recipients a tick resolves for a message that is not in test mode
\* hold no phone that is unsubscribed or suppressed at that moment, and for a
\* message in test mode they are the configured test number alone, whether or
\* not that number is unsubscribed or suppressed; the list resolved is the
\* list passed to the provider.
C20_ScheduledRecipientsExcludeBlocked ==
    [][/\ \A w \in Workers :
              Resolves(w) =>
                  LET row == scheduled_messages[current_id(workers[w])]
                      recipient_data == workers'[w].recipient_data
                  IN
                  IF row.test_mode
                  THEN recipient_data =
                           <<[phone |-> config.admin_test_phone, name |-> "Admin Test"]>>
                  ELSE \A i \in 1..Len(recipient_data) :
                           recipient_data[i].phone \notin BlockedPhones
       /\ PassesToProvider =>
              LET sent == bulk_sends'[Len(bulk_sends')] IN
              /\ workers[sent.worker].pc = "send"
              /\ sent.id = current_id(workers[sent.worker])
              /\ sent.recipient_data = workers[sent.worker].recipient_data]_vars

\* with Phone1 and Phone3 unsubscribed, the community message went to Phone2
\* alone, although Phone1 is a member, and the test message went to the test
\* number Phone3
C20_Witness ==
    /\ \E m \in community_members : m.phone = Phone1
    /\ \E u \in unsubscribed : u.phone = Phone1
    /\ \E u \in unsubscribed : u.phone = Phone3
    /\ \E i \in DOMAIN bulk_sends :
           /\ bulk_sends[i].id = 1
           /\ ~scheduled_messages[1].test_mode
           /\ bulk_sends[i].recipient_data = <<[phone |-> Phone2, name |-> ""]>>
    /\ \E i \in DOMAIN bulk_sends :
           /\ bulk_sends[i].id = 2
           /\ scheduled_messages[2].test_mode
           /\ bulk_sends[i].recipient_data = <<[phone |-> Phone3, name |-> "Admin Test"]>>


(***************************************************************************)
(* Specification SpecRsvp: the inbound webhook with a survey linked to     *)
(* event 1 and a survey linked to no event, each of one question, and two  *)
(* phones that start and answer them                                       *)
(***************************************************************************)
\* bound: the inbound messages delivered in one behaviour
MaxRsvp == 4

RsvpFlows ==
    <<[trigger_keyword |-> "JOIN", intro_message |-> "Welcome",
       questions |-> <<"Name?">>, completion_message |-> "Thanks",
       is_active |-> TRUE, start_count |-> 0, completion_count |-> 0,
       linked_event_id |-> 1],
      [trigger_keyword |-> "POLL", intro_message |-> "",
       questions |-> <<"Vote?">>, completion_message |-> "Noted",
       is_active |-> TRUE, start_count |-> 0, completion_count |-> 0,
       linked_event_id |-> NoId]>>

RsvpFroms == {RawPhone1, Phone2}
RsvpBodies == {"JOIN", "poll  now", "Blue", "hours"}

InitRsvp ==
    /\ fn_call = NoFnCall
    /\ IdleSupp /\ IdleDispatch /\ IdleScheduler
    /\ config = Config(TRUE, "", 0, TRUE)
    /\ inbox_threads = {} /\ inbox_messages = <<>>
    /\ survey_sessions = <<>> /\ survey_responses = <<>>
    /\ automation = [survey_flows |-> RsvpFlows, keyword_rules |-> <<>>]
    /\ inbound = NoInbound

RsvpDeliver ==
    /\ inbound.n < MaxRsvp
    /\ \E raw_from \in RsvpFroms, body \in RsvpBodies :
           ProcessInboundSms(raw_from, body, inbound.n + 1,
                             [kind |-> "created", status |-> 201, msg |-> ""])

NextRsvp == RsvpDeliver

SpecRsvp == InitRsvp /\ [][NextRsvp]_vars

\* the sessions of the phone for the survey that are completed
CompletedSessions(survey_id, phone) ==
    {i \in DOMAIN survey_sessions :
        /\ survey_sessions[i].survey_id = survey_id
        /\ survey_sessions[i].phone = phone
        /\ survey_sessions[i].status = "completed"}

Registrations(event_id, phone) ==
    {r \in event_registrations : r.event_id = event_id /\ r.phone = phone}

\* the first answer given in the latest completed session
LatestName(survey_id, phone) ==
    LET latest == CHOOSE i \in CompletedSessions(survey_id, phone) :
                      \A j \in CompletedSessions(survey_id, phone) : j <= i
        answers == SelectSeq(survey_responses, LAMBDA r : r.session_id = latest)
    IN answers[1].answer

AnswersSurvey ==
    /\ StoresInbound
    /\ ActiveSessions(survey_sessions, StoredInbound.phone) # {}
    /\ NormalizedKeyword[StoredInbound.raw_payload.Body] \notin C7_StopFamily

\* C22: while a phone has an active survey session, an inbound message that is
\* no STOP-family keyword is recorded as the answer to the current question
\* and returns survey_response, also when it is a START-family word, a survey
\* trigger or the keyword of a rule; it leaves the UnsubscribedContacts alone,
\* starts no session and fires no keyword rule.
C22_ActiveSessionTakesEveryAnswer ==
    [][AnswersSurvey =>
          LET phone == StoredInbound.phone
              session_id == active_session(survey_sessions, phone)
              answer == survey_responses'[Len(survey_responses')]
          IN
          /\ inbound'.status = "survey_response"
          /\ Len(survey_responses') = Len(survey_responses) + 1
          /\ answer.session_id = session_id
          /\ answer.phone = phone
          /\ answer.question_index = survey_sessions[session_id].current_question_index
          /\ answer.answer = StrippedBody[StoredInbound.raw_payload.Body]
          /\ unsubscribed' = unsubscribed
          /\ Len(survey_sessions') = Len(survey_sessions)
          /\ \A i \in DOMAIN automation.survey_flows :
                 automation'.survey_flows[i].start_count =
                     automation.survey_flows[i].start_count
          /\ automation'.keyword_rules = automation.keyword_rules]_vars

\* JOIN started the two-question survey; "start" and then "hours" were
\* recorded as its answers
C22_Witness ==
    /\ inbound.status = "survey_response"
    /\ Len(survey_sessions) = 1
    /\ Len(survey_responses) = 2
    /\ survey_responses[1].answer = "start"
    /\ survey_responses[1].question_index = 0
    /\ survey_responses[2].answer = "hours"
    /\ survey_responses[2].question_index = 1
    /\ unsubscribed = {}
    /\ automation.keyword_rules[1].match_count = 0


(***************************************************************************)
(* Specification SpecAnswers: the inbound webhook with a survey of two     *)
(* questions, a survey of one question and a survey whose stored question  *)
(* list is empty (questions_json defaults to '[]')                         *)
(***************************************************************************)
AnswerFlows ==
    <<[trigger_keyword |-> "JOIN", intro_message |-> "Welcome",
       questions |-> <<"Name?", "Email?">>, completion_message |-> "Thanks",
       is_active |-> TRUE, start_count |-> 0, completion_count |-> 0,
       linked_event_id |-> NoId],
      [trigger_keyword |-> "POLL", intro_message |-> "",
       questions |-> <<"Vote?">>, completion_message |-> "Noted",
       is_active |-> TRUE, start_count |-> 0, completion_count |-> 0,
       linked_event_id |-> NoId],
      [trigger_keyword |-> "HOURS", intro_message |-> "Welcome",
       questions |-> <<>>, completion_message |-> "Thanks",
       is_active |-> TRUE, start_count |-> 0, completion_count |-> 0,
       linked_event_id |-> NoId]>>

InitAnswers ==
    /\ fn_call = NoFnCall
    /\ IdleSupp /\ IdleDispatch /\ IdleScheduler
    /\ config = Config(TRUE, "", 0, TRUE)
    /\ inbox_threads = {} /\ inbox_messages = <<>>
    /\ survey_sessions = <<>> /\ survey_responses = <<>>
    /\ automation = [survey_flows |-> AnswerFlows, keyword_rules |-> <<>>]
    /\ inbound = NoInbound

SpecAnswers == InitAnswers /\ [][NextRsvp]_vars

QuestionsOf(session) == automation.survey_flows[session.survey_id].questions

CompletionCount(survey_id) == automation.survey_flows[survey_id].completion_count

\* the completion counters of the flows other than survey_id stay as they are
OtherCountsUnchanged(survey_id) ==
    \A i \in DOMAIN automation.survey_flows \ {survey_id} :
        automation'.survey_flows[i].completion_count = CompletionCount(i)

\* the step records an answer of the session that was active
AnswerStep ==
    LET session_id == active_session(survey_sessions, StoredInbound.phone)
        before == survey_sessions[session_id]
        after == survey_sessions'[session_id]
        answer == survey_responses'[Len(survey_responses')]
        last == before.current_question_index + 1 = Len(QuestionsOf(before))
    IN
    /\ Len(survey_responses') = Len(survey_responses) + 1
    /\ SubSeq(survey_responses', 1, Len(survey_responses)) = survey_responses
    /\ answer.session_id = session_id
    /\ answer.question_index = before.current_question_index
    /\ after.current_question_index = before.current_question_index + 1
    /\ after.status = IF last THEN "completed" ELSE "active"
    /\ after.completed_at # NoTime <=> last
    /\ automation'.survey_flows[before.survey_id].completion_count =
           CompletionCount(before.survey_id) + (IF last THEN 1 ELSE 0)
    /\ OtherCountsUnchanged(before.survey_id)

\* the step starts a session: one of a flow without questions is completed at once
StartStep ==
    LET started == survey_sessions'[Len(survey_sessions')]
        empty == QuestionsOf(started) = <<>>
    IN
    /\ Len(survey_responses') = Len(survey_responses)
    /\ started.current_question_index = 0
    /\ started.status = IF empty THEN "completed" ELSE "active"
    /\ started.completed_at # NoTime <=> empty
    /\ empty => ActiveSessions(survey_sessions', started.phone) = {}
    /\ automation'.survey_flows[started.survey_id].completion_count =
           CompletionCount(started.survey_id) + (IF empty THEN 1 ELSE 0)
    /\ OtherCountsUnchanged(started.survey_id)

\* C23: an answer in an active session records one SurveyResponse at the
\* current question index and advances the index by one; the session stays
\* active while questions remain and is completed, with completed_at set,
\* exactly when the last question is answered, and the completion counter of
\* its flow then grows by one; a session of a flow without questions is
\* completed at its start and is never active.
C23_AnswersAdvanceToCompletion ==
    /\ [](\A i \in DOMAIN survey_sessions :
              /\ survey_sessions[i].status = "active" =>
                     survey_sessions[i].current_question_index
                         < Len(QuestionsOf(survey_sessions[i]))
              /\ survey_sessions[i].status = "completed" =>
                     /\ survey_sessions[i].current_question_index
                            = Len(QuestionsOf(survey_sessions[i]))
                     /\ survey_sessions[i].completed_at # NoTime)
    /\ [][(InboundCall /\ inbound'.status = "survey_response") => AnswerStep]_vars
    /\ [][(InboundCall /\ inbound'.status = "survey_started") => StartStep]_vars
    /\ [][(InboundCall /\ inbound'.status \notin {"survey_response", "survey_started"})
              => /\ survey_responses' = survey_responses
                 /\ \A i \in DOMAIN automation.survey_flows :
                        automation'.survey_flows[i].completion_count =
                            CompletionCount(i)]_vars

\* Phone2 answered both questions of JOIN and started the survey without
\* questions: two completed sessions, two answers, each flow completed once
C23_Witness ==
    /\ Len(survey_sessions) = 2
    /\ survey_sessions[1].survey_id = 1
    /\ survey_sessions[1].status = "completed"
    /\ survey_sessions[1].current_question_index = 2
    /\ survey_sessions[2].survey_id = 3
    /\ survey_sessions[2].status = "completed"
    /\ survey_sessions[2].current_question_index = 0
    /\ Len(survey_responses) = 2
    /\ CompletionCount(1) = 1
    /\ CompletionCount(3) = 1
    /\ ActiveSessions(survey_sessions, Phone2) = {}


(***************************************************************************)
(* Specification SpecCancel: the inbound webhook with phones that start a  *)
(* survey and send CANCEL or quit in the middle of it                      *)
(***************************************************************************)
InitCancel ==
    /\ fn_call = NoFnCall
    /\ IdleSupp /\ IdleDispatch /\ IdleScheduler
    /\ config = Config(TRUE, "", 0, TRUE)
    /\ inbox_threads = {} /\ inbox_messages = <<>>
    /\ survey_sessions = <<>> /\ survey_responses = <<>>
    /\ automation = Automation
    /\ inbound = NoInbound

CancelDeliver ==
    /\ inbound.n < MaxRsvp
    /\ \E raw_from \in RsvpFroms, body \in CancelBodies :
           ProcessInboundSms(raw_from, body, inbound.n + 1,
                             [kind |-> "created", status |-> 201, msg |-> ""])

NextCancel == CancelDeliver

SpecCancel == InitCancel /\ [][NextCancel]_vars

\* the call stores a CANCEL or QUIT of a phone that has an active survey session
CancelsInSurvey ==
    /\ StoresInbound
    /\ NormalizedKeyword[StoredInbound.raw_payload.Body] \in {"CANCEL", "QUIT"}
    /\ ActiveSessions(survey_sessions, StoredInbound.phone) # {}

\* the call cancels the active session of the phone, completed_at set
CancelsSession ==
    LET session_id == active_session(survey_sessions, StoredInbound.phone) IN
    /\ survey_sessions'[session_id].status = "cancelled"
    /\ survey_sessions'[session_id].completed_at # NoTime
    /\ ActiveSessions(survey_sessions', StoredInbound.phone) = {}

\* the call sends the one reply body through the provider
Acknowledges(body) ==
    /\ Len(inbound'.replies) = 1
    /\ inbound'.replies[1].body = body
    /\ inbound'.replies[1].provider

\* C24, as stated: CANCEL or QUIT of a phone with an active survey session
\* cancels the session (completed_at set), sends the survey-cancellation
\* acknowledgement and returns status survey_cancelled.
C24_CancelReturnsSurveyCancelled ==
    [][CancelsInSurvey
          => /\ CancelsSession
             /\ Acknowledges(ReplySurveyCancelled)
             /\ inbound'.status = "survey_cancelled"]_vars

\* C24, amended: CANCEL or QUIT of a phone with an active survey session
\* cancels the session (completed_at set), unsubscribes the phone, sends the
\* unsubscribe acknowledgement and returns status opt_out.
C24_CancelInSurveyOptsOut ==
    [][CancelsInSurvey
          => /\ CancelsSession
             /\ HasUnsubscribed(unsubscribed', StoredInbound.phone)
             /\ Acknowledges(ReplyUnsubscribed)
             /\ inbound'.status = "opt_out"]_vars

\* one phone left its survey with CANCEL, the other with quit after an answer
C24_Witness ==
    /\ inbound.n = 4
    /\ inbound.status = "opt_out"
    /\ Len(survey_sessions) = 2
    /\ \A i \in DOMAIN survey_sessions :
           /\ survey_sessions[i].status = "cancelled"
           /\ survey_sessions[i].completed_at # NoTime
    /\ {m.body : m \in {inbox_messages[i] : i \in DOMAIN inbox_messages}}
           = {"JOIN", "CANCEL", "quit", ReplyUnsubscribed, "Welcome", "Name?"}
    /\ {r.phone : r \in unsubscribed} = {Phone1, Phone2}


(***************************************************************************)
(* suppression_backfill.py: backfill_suppressions, run twice over the      *)
(* stored batches (specification SpecBackfill)                             *)
(***************************************************************************)
\* bound of the backfill specification: the batches stored (each holds up to
\* MaxDetails result records)
MaxBackfillLogs == 2

BackfillDetails ==
    { Detail(Phone1, "Casey", "False", ErrUnsubscribed),
      Detail(Phone1, "", "False", ErrReplyStop),
      Detail(RawPhone1, "", "False", ErrInvalidNumber),
      Detail(Phone2, "", "False", ErrNotValid) }

\* a batch whose job recorded the failures in details, or one just created
StoredLog(details) ==
    IF details = <<>> THEN MessageLog("processing", 1, <<>>)
    ELSE [MessageLog("failed", Len(details), details) EXCEPT
             !.failure_count = Len(details)]

\* lines 10-23: the list stored in MessageLog.details
load_details(log) == log.details

\* lines 37-44: the batches after the cursor, in ascending id order
backfill_batch(logs, last_id) == {i \in DOMAIN logs : i > last_id}

InitBackfill ==
    /\ fn_call = [fn |-> "backfill_suppressions", pc |-> "idle", runs |-> 0,
                  last_id |-> 0, first_run |-> <<>>, rewrote |-> FALSE]
    /\ suppressed = {}
    /\ unsubscribed \in {{}, {[id |-> 1, name |-> "", phone |-> Phone1,
                               reason |-> ReasonStop, source |-> "inbound"]}}
    /\ community_members = {[phone |-> p, name |-> ""] : p \in Phones}
    /\ event_registrations =
           {[event_id |-> e, phone |-> p, name |-> ""] : e \in EventIds, p \in Phones}
    /\ pfd_call = NoPfdCall
    /\ config = Config(TRUE, "", 0, TRUE)
    /\ \E n \in 0..MaxBackfillLogs :
           message_logs \in [1..n -> {StoredLog(details) :
                                         details \in SeqsUpTo(BackfillDetails, MaxDetails)}]
    /\ job = NoJob
    /\ IdleScheduler /\ IdleInbox

\* lines 27-34: a run starts with the cursor before the first batch
BackfillBegin ==
    /\ fn_call.pc = "idle"
    /\ fn_call.runs < 2
    /\ fn_call' = [fn_call EXCEPT !.pc = "running", !.last_id = 0]
    /\ UNCHANGED <<supp_vars, config, job_vars, sched_vars, inbox_vars>>

\* lines 54-62: the next batch in id order; one without details is skipped
BackfillLog ==
    /\ fn_call.pc = "running"
    /\ backfill_batch(message_logs, fn_call.last_id) # {}
    /\ \E log_id \in {fn_call.last_id + 1} :
       \E details \in {load_details(message_logs[log_id])} :
           /\ IF details = <<>>
              THEN UNCHANGED supp_vars
              ELSE \E r \in {process_failure_details(details, log_id, CurrentDb)} :
                       /\ SetDb(r.db)
                       /\ RecordPfdCall(details, log_id, FALSE, r.counts)
           /\ fn_call' = [fn_call EXCEPT
                             !.last_id = log_id,
                             !.rewrote = @ \/ (fn_call.runs = 1 /\ details # <<>>
                                               /\ CurrentDb # fn_call.first_run)]
    /\ UNCHANGED <<config, job_vars, sched_vars, inbox_vars>>

\* lines 43-44, 82-98: no batch is left and the run returns
BackfillReturn ==
    /\ fn_call.pc = "running"
    /\ backfill_batch(message_logs, fn_call.last_id) = {}
    /\ fn_call' = [fn_call EXCEPT
                      !.pc = "idle", !.runs = @ + 1,
                      !.first_run = IF fn_call.runs = 0 THEN CurrentDb ELSE @]
    /\ UNCHANGED <<supp_vars, config, job_vars, sched_vars, inbox_vars>>

NextBackfill ==
    \/ BackfillBegin
    \/ BackfillLog
    \/ BackfillReturn

SpecBackfill == InitBackfill /\ [][NextBackfill]_vars

DeletionStages == {"none", "community_members", "event_registrations"}

SuppRaisingCall ==
    /\ pfd_call.n < MaxCalls
    /\ \E details \in SeqsUpTo(SuppDetails, MaxDetails) :
       \E done \in 0..Len(details) :
       \E deleted \in IF done = Len(details) THEN DeletionStages ELSE {"none"} :
       \E log_id \in {pfd_call.n + 1} :
           /\ SetDb(process_failure_details_raising(details, log_id, CurrentDb, done,
                                                    deleted))
           /\ RecordPfdCall(details, log_id, TRUE, pfd_zero_counts(details))
    /\ UNCHANGED <<config, fn_call, job_vars, sched_vars, inbox_vars>>

NextTx ==
    \/ SuppProcessFailureDetails
    \/ SuppUnsubscribedAdd
    \/ SuppRaisingCall

SpecTx == InitSupp /\ [][NextTx]_vars

RecipientPhones ==
    {m.phone : m \in community_members} \cup {r.phone : r \in event_registrations}

\* C26: a process_failure_details call that fails part-way leaves none of its
\* Unsubscribed upserts, Suppressed upserts or recipient-table deletions
\* behind, so no phone is suppressed as hard_fail by a call while it is still
\* in a recipient table.
C26_FailureDetailsAllOrNothing ==
    /\ [][(pfd_call'.n # pfd_call.n /\ pfd_call'.raised) => UNCHANGED db_tables]_vars
    /\ [](\A s \in suppressed :
              s.source = "message_failure" => s.phone \notin RecipientPhones)

\* a call that raised after its hard-fail record was processed, following a
\* call that suppressed another phone: the phone of the failed call is still a
\* recipient and is not suppressed
C26_Witness ==
    /\ pfd_call.n = 2
    /\ pfd_call.raised
    /\ pfd_call.details = <<Detail(Phone2, "", "False", ErrInvalidNumber)>>
    /\ {s.phone : s \in suppressed} = {Phone1}
    /\ Phone2 \in RecipientPhones
    /\ Phone1 \notin RecipientPhones


(***************************************************************************)
(* Claims about messages that are not yet due (checked under SpecSched)    *)
(***************************************************************************)
\* the step is one of the tick of worker w
TickStep(w) == workers'[w] # workers[w]

\* now of the tick the step belongs to (line 38)
TickNow(w) == IF workers[w].pc = "idle" THEN workers'[w].now ELSE workers[w].now

\* the pending messages scheduled later than now
FuturePending(now) ==
    {m \in DOMAIN scheduled_messages :
        /\ scheduled_messages[m].status = "pending"
        /\ scheduled_messages[m].scheduled_at > now}

\* C27: a step of a scheduler tick leaves every pending message scheduled
\* later than the tick's now as it is (pending, not claimed, not expired) and
\* makes no provider call for it.
C27_TickLeavesFutureMessages ==
    [][\A w \in Workers :
          TickStep(w) =>
              \A m \in FuturePending(TickNow(w)) :
                  /\ scheduled_messages'[m] = scheduled_messages[m]
                  /\ bulk_sends' # bulk_sends =>
                         bulk_sends'[Len(bulk_sends')].id # m]_vars

\* a tick sent the first message and returned while the second, scheduled for
\* a later time, is still pending
C27_Witness ==
    /\ Len(scheduled_messages) = 2
    /\ scheduled_messages[2].status = "pending"
    /\ scheduled_messages[2].scheduled_at > clock
    /\ scheduled_messages[1].status = "sent"
    /\ scheduled_messages[1].sent_at < scheduled_messages[2].scheduled_at
    /\ Len(bulk_sends) = 1
    /\ bulk_sends[1].id = 1
    /\ \A w \in Workers : workers[w].pc = "idle"


(***************************************************************************)
(* Specification SpecNormalize: normalize_phone applied to a phone string, *)
(* and again to what it returned.  The phone strings are the runs of up to *)
(* MaxPieces pieces: a plus sign, a country code, blanks, punctuated digit *)
(* groups and a letter.                                                    *)
(***************************************************************************)
MaxPieces == 4

PhonePieces ==
    { <<"+">>, <<"1">>, <<" ">>, <<"(","7","2","0",")"," ">>,
      <<"5","5","5","-","0","1","0","0">>, <<"x">> }

RECURSIVE PhoneText(_)
PhoneText(pieces) ==
    IF pieces = <<>> THEN <<>> ELSE Head(pieces) \o PhoneText(Tail(pieces))

PhoneTexts == {PhoneText(pieces) : pieces \in SeqsUpTo(PhonePieces, MaxPieces)}

InitNormalize ==
    /\ \E phone \in PhoneTexts :
           fn_call = [fn |-> "normalize_phone", phone |-> phone, calls |-> 0,
                      returned |-> <<>>, returned_again |-> <<>>]
    /\ IdleSupp /\ IdleDispatch /\ IdleScheduler /\ IdleInbox
    /\ config = Config(TRUE, "", 0, TRUE)

\* normalize_phone(x)
NormalizePhone ==
    /\ fn_call.calls = 0
    /\ fn_call' = [fn_call EXCEPT !.calls = 1, !.returned = normalize_phone(fn_call.phone)]
    /\ UNCHANGED <<supp_vars, config, job_vars, sched_vars, inbox_vars>>

\* normalize_phone(normalize_phone(x))
NormalizePhoneAgain ==
    /\ fn_call.calls = 1
    /\ fn_call' = [fn_call EXCEPT !.calls = 2,
                                  !.returned_again = normalize_phone(fn_call.returned)]
    /\ UNCHANGED <<supp_vars, config, job_vars, sched_vars, inbox_vars>>

NextNormalize ==
    \/ NormalizePhone
    \/ NormalizePhoneAgain

SpecNormalize == InitNormalize /\ [][NextNormalize]_vars

CountDigits(s) == Cardinality({i \in 1..Len(s) : s[i] \in Digits})

\* the number of '+' the string starts with
RECURSIVE LeadingPlus(_)
LeadingPlus(s) ==
    IF s # <<>> /\ Head(s) = "+" THEN 1 + LeadingPlus(Tail(s)) ELSE 0

\* C28: for a phone string with at least 7 digits and at most one leading '+',
\* normalize_phone(normalize_phone(x)) = normalize_phone(x).
C28_NormalizePhoneIdempotent ==
    (/\ fn_call.calls = 2
     /\ CountDigits(fn_call.phone) >= 7
     /\ LeadingPlus(fn_call.phone) <= 1)
        => fn_call.returned_again = fn_call.returned

\* "1(720) 555-0100" became "+17205550100", and so did "+17205550100"
C28_Witness ==
    /\ fn_call.calls = 2
    /\ fn_call.phone = <<"1","(","7","2","0",")"," ","5","5","5","-","0","1","0","0">>
    /\ fn_call.returned = Chars[Phone1]
    /\ fn_call.returned # fn_call.phone
    /\ fn_call.returned_again = Chars[Phone1]


(***************************************************************************)
(* Claims about automated replies and START (checked under SpecInbox)      *)
(***************************************************************************)
\* the outbound messages the call has stored, in order
StoredReplies ==
    SelectSeq(SubSeq(inbox_messages', Len(inbox_messages) + 1, Len(inbox_messages')),
              LAMBDA message : message.direction = "outbound")

\* the replies of the call that have a text: those it sends when replies are on
RepliesToSend == SelectSeq(inbound'.replies, LAMBDA reply : reply.body # "")

\* no reply of the call went to the provider, and each is stored as an outbound
\* message with the delivery status
RepliesStoredAs(delivery_status) ==
    /\ \A i \in DOMAIN inbound'.replies : ~inbound'.replies[i].provider
    /\ Len(StoredReplies) = Len(RepliesToSend)
    /\ \A i \in DOMAIN StoredReplies :
           /\ StoredReplies[i].body = RepliesToSend[i].body
           /\ StoredReplies[i].phone = inbound'.phone
           /\ StoredReplies[i].delivery_status = delivery_status

\* C29, as stated: with automated replies disabled, process_inbound_sms calls
\* the provider for no reply and stores every reply as an outbound message
\* with delivery status "skipped".
C29_DisabledRepliesStoredSkipped ==
    [][(InboundCall /\ ~config.auto_reply_enabled) => RepliesStoredAs("skipped")]_vars

\* C29, amended: with automated replies disabled, process_inbound_sms calls the
\* provider for no reply and stores every reply as an outbound message with
\* delivery status "disabled".
C29_DisabledRepliesStoredDisabled ==
    [][(InboundCall /\ ~config.auto_reply_enabled) => RepliesStoredAs("disabled")]_vars

\* with replies disabled, JOIN was answered with the intro and the first
\* question, both stored as disabled and neither handed to the provider
C29_Witness ==
    /\ ~config.auto_reply_enabled
    /\ inbound.status = "survey_started"
    /\ Len(inbound.replies) = 2
    /\ \A i \in DOMAIN inbound.replies :
           inbound.replies[i].status = "disabled" /\ ~inbound.replies[i].provider
    /\ Len(inbox_messages) = 3
    /\ inbox_messages[2].direction = "outbound"
    /\ inbox_messages[2].body = "Welcome"
    /\ inbox_messages[2].delivery_status = "disabled"
    /\ inbox_messages[3].body = "Name?"
    /\ inbox_messages[3].delivery_status = "disabled"
    /\ inbox_messages[3].delivery_error = "auto_reply_disabled"


(***************************************************************************)
(* Specification SpecStart: the inbound webhook with phones that opt out   *)
(* and send the START-family keywords                                      *)
(***************************************************************************)
StartDeliver ==
    /\ inbound.n < MaxRsvp
    /\ \E raw_from \in RsvpFroms, body \in StartBodies :
           ProcessInboundSms(raw_from, body, inbound.n + 1,
                             [kind |-> "created", status |-> 201, msg |-> ""])

NextStart == StartDeliver

SpecStart == InitCancel /\ [][NextStart]_vars

\* the call stores a START-family keyword of a phone without an active session
StartsWithoutSession ==
    /\ StoresInbound
    /\ NormalizedKeyword[StoredInbound.raw_payload.Body] \in {"START", "UNSTOP", "YES"}
    /\ ActiveSessions(survey_sessions, StoredInbound.phone) = {}

\* C30: a START-family keyword of a phone without an active survey session
\* returns opt_in and leaves no UnsubscribedContact for the phone, whether or
\* not there was one: the acknowledgement says resubscribed when one was
\* removed and already subscribed otherwise, and a repeated START changes no
\* UnsubscribedContact and no session.
C30_StartOptsInIdempotently ==
    [][StartsWithoutSession
          => /\ inbound'.status = "opt_in"
             /\ ~HasUnsubscribed(unsubscribed', StoredInbound.phone)
             /\ unsubscribed' = {r \in unsubscribed : r.phone # StoredInbound.phone}
             /\ survey_sessions' = survey_sessions
             /\ survey_responses' = survey_responses
             /\ Acknowledges(IF HasUnsubscribed(unsubscribed, StoredInbound.phone)
                             THEN ReplyResubscribed ELSE ReplyAlreadySubscribed)]_vars

\* both phones opted out; Phone2 then sent start and UNSTOP: it was told
\* resubscribed, then already subscribed, and only Phone1 is unsubscribed
C30_Witness ==
    /\ inbound.n = 4
    /\ inbound.status = "opt_in"
    /\ inbound.phone = Phone2
    /\ inbound.replies[1].body = ReplyAlreadySubscribed
    /\ {r.phone : r \in unsubscribed} = {Phone1}
    /\ \E i \in DOMAIN inbox_messages :
           /\ inbox_messages[i].phone = Phone2
           /\ inbox_messages[i].body = ReplyResubscribed
    /\ inbox_messages[Len(inbox_messages) - 1].body = "UNSTOP"


(***************************************************************************)
(* Claims about terminal statuses of scheduled messages (under SpecSched)  *)
(***************************************************************************)
TerminalStatuses == {"sent", "failed", "expired", "cancelled"}

\* C31: a scheduled message whose status is sent, failed, expired or cancelled
\* never changes status again, whatever the interleaving of the ticks of the
\* workers and the cancellations of the operator.
C31_TerminalStatusIsFinal ==
    [][\A m \in DOMAIN scheduled_messages :
          scheduled_messages[m].status \in TerminalStatuses =>
              scheduled_messages'[m].status = scheduled_messages[m].status]_vars


\* worker w has claimed message m in its running tick and has not finished it
HoldsClaim(w, m) ==
    /\ workers[w].pc \in {"resolve", "send"}
    /\ current_id(workers[w]) = m

\* the step marks message m, in processing, failed as timed out
TimesOut(m) ==
    /\ scheduled_messages[m].status = "processing"
    /\ scheduled_messages'[m].status = "failed"
    /\ scheduled_messages'[m].error_message = ErrTimedOut

\* C32: stuck-processing recovery fails no message that a live worker claimed
\* less than ten minutes ago and is still sending (a claim is made after the
\* start of the worker's tick, so a tick younger than ten minutes holds only
\* claims younger than ten minutes), whatever the scheduled time of the message.
C32_RecoverySparesFreshClaims ==
    [][\A m \in DOMAIN scheduled_messages :
          TimesOut(m) =>
              ~ \E w \in Workers :
                    /\ HoldsClaim(w, m)
                    /\ clock - workers[w].now < ProcessingTimeoutMinutes]_vars


\* the step is the send of worker w in which the suppression engine raised
\* after the bulk send was made and the message committed as sent
PostProcessingRaised(w) ==
    /\ workers[w].pc = "send"
    /\ workers'[w] # workers[w]
    /\ Len(bulk_sends') = Len(bulk_sends) + 1
    /\ pfd_call'.n = pfd_call.n + 1
    /\ pfd_call'.raised

\* C33: when the suppression engine raises on the results of a bulk send that
\* completed and was committed as sent, the scheduled message stays sent and
\* linked to its batch; the bookkeeping error does not make it failed.
C33_PostProcessingErrorKeepsSent ==
    [][\A w \in Workers :
          PostProcessingRaised(w) =>
              LET m == current_id(workers[w]) IN
              /\ scheduled_messages'[m].status = "sent"
              /\ scheduled_messages'[m].message_log_id = Len(message_logs')]_vars


(***************************************************************************)
(* Claims about repeated executions (checked under SpecJobRedelivery)      *)
(***************************************************************************)
\* send_bulk_job is executing, or about to, on a batch that is sent or failed
ExecutesOnTerminalBatch ==
    /\ job.pc \in {"queued", "sending"}
    /\ message_logs[job.log_id].status \in {"sent", "failed"}

\* C34: an execution of send_bulk_job on a batch that is already sent or failed
\* calls the provider for no recipient and leaves the status, the counts and
\* the result records of the batch as they are, also when the batch failed
\* with a synthetic error entry.
C34_TerminalBatchIsImmutable ==
    [][ExecutesOnTerminalBatch
          => /\ message_logs'[job.log_id] = message_logs[job.log_id]
             /\ job'.calls = <<>>]_vars


(***************************************************************************)
(* Two deliveries of one inbound message handled concurrently.  Each       *)
(* request of twilio_inbound_webhook runs process_inbound_sms in its own   *)
(* database session; a handler reads the committed rows at its two queries *)
(* for the message id (lines 317-320 and 116-126) and writes at the flush  *)
(* of line 331, where the unique index on inbox_messages.message_sid       *)
(* rejects an id another session has committed.  fn_call holds the payload *)
(* and, for each handler, its position and the id it resolved.             *)
(***************************************************************************)
Handlers == {"h1", "h2"}

HandlerIdle == [pc |-> "idle", message_sid |-> NoSid]

InboundHandlers(payload, handlers) ==
    [fn |-> "twilio_inbound_webhook", payload |-> payload, handlers |-> handlers]

InitDuplicate ==
    /\ fn_call = InboundHandlers(NoPayload, [h \in Handlers |-> HandlerIdle])
    /\ IdleSupp /\ IdleDispatch /\ IdleScheduler
    /\ config = Config(TRUE, "", 0, TRUE)
    /\ inbox_threads = {} /\ inbox_messages = <<>>
    /\ survey_sessions = <<>> /\ survey_responses = <<>>
    /\ automation = Automation
    /\ inbound = NoInbound

HandlersAtRest == \A h \in Handlers : fn_call.handlers[h].pc \notin {"received", "checked", "appending"}

\* one delivery of a new message, handled to its end before the next arrives
DeliverOnce == HandlersAtRest /\ CancelDeliver

\* the provider delivers one new message twice: both requests are in flight
DeliverTwice ==
    /\ HandlersAtRest
    /\ inbound.n < MaxRsvp
    /\ \E raw_from \in RsvpFroms, body \in CancelBodies :
         fn_call' = InboundHandlers(
                        [From |-> raw_from, Body |-> body, MessageSid |-> inbound.n + 1],
                        [h \in Handlers |-> [pc |-> "received", message_sid |-> NoSid]])
    /\ UNCHANGED <<supp_vars, config, job_vars, sched_vars, inbox_vars>>

\* process_inbound_sms lines 304-320: the early returns and the duplicate check
HandlerCheck(h) ==
    LET payload == fn_call.payload
        phone == NormalizedPhone[payload.From]
    IN
    /\ fn_call.handlers[h].pc = "received"
    /\ fn_call' = [fn_call EXCEPT !.handlers[h].pc =
                      IF payload.From = "" \/ ~ValidPhone[phone] THEN "ignored"
                      ELSE IF is_duplicate(inbox_messages, payload.MessageSid)
                      THEN "duplicate" ELSE "checked"]
    /\ UNCHANGED <<supp_vars, config, job_vars, sched_vars, inbox_vars>>

\* _append_inbox_message lines 116-126: an id that is stored by now is dropped
\* and the message will be stored without one
HandlerResolveSid(h) ==
    LET message_sid == fn_call.payload.MessageSid IN
    /\ fn_call.handlers[h].pc = "checked"
    /\ fn_call' = [fn_call EXCEPT !.handlers[h] =
                      [pc |-> "appending",
                       message_sid |-> IF has_message_sid(inbox_messages, message_sid)
                                       THEN NoSid ELSE message_sid]]
    /\ UNCHANGED <<supp_vars, config, job_vars, sched_vars, inbox_vars>>

\* lines 322-475 with the message id the handler resolved
process_stored_inbound(ib, payload, resolved_message_sid, outcome, now) ==
    LET phone == NormalizedPhone[payload.From] IN
    Then(append_inbox_message(
             get_or_create_thread(ib, phone, now), phone, "inbound",
             StrippedBody[payload.Body], resolved_message_sid, "", NoId, "", "",
             payload, now), LAMBDA stored :
    Then(inbound_dispatch(stored, phone, payload.Body, outcome, now), LAMBDA done :
    LET inbound_message == Len(stored.messages)
        committed ==
            IF done.matched_keyword # ""
            THEN [done.ib EXCEPT !.messages[inbound_message].matched_keyword =
                                     done.matched_keyword]
            ELSE done.ib
    IN [ib |-> committed,
        result |-> InboundResult(done.status, "", thread_of(stored.threads, phone).id,
                                 phone, done.ib.replies)]))

\* the flush of line 331 and all that follows it up to the commit of line 469;
\* the insert of an id that another session has committed violates the unique
\* index (models.py line 185) and the webhook rolls the session back
HandlerStore(h) ==
    LET payload == fn_call.payload
        resolved_message_sid == fn_call.handlers[h].message_sid
    IN
    /\ fn_call.handlers[h].pc = "appending"
    /\ IF resolved_message_sid # NoSid /\ has_message_sid(inbox_messages, resolved_message_sid)
       THEN /\ fn_call' = [fn_call EXCEPT !.handlers[h].pc = "raised"]
            /\ UNCHANGED <<unsubscribed, event_registrations, inbox_vars>>
       ELSE \E call \in {process_stored_inbound(InboxState, payload, resolved_message_sid,
                             [kind |-> "created", status |-> 201, msg |-> ""], clock)} :
            /\ CommitInbox(call.ib)
            /\ fn_call' = [fn_call EXCEPT !.handlers[h].pc = "stored"]
            /\ inbound' = [n |-> inbound.n + 1,
                           message_sid |-> payload.MessageSid,
                           status |-> call.result.status,
                           reason |-> call.result.reason,
                           thread_id |-> call.result.thread_id,
                           phone |-> call.result.phone, replies |-> call.result.replies]
    /\ UNCHANGED <<suppressed, community_members, pfd_call>>
    /\ UNCHANGED <<config, job_vars, sched_vars>>

NextDuplicate ==
    \/ DeliverOnce
    \/ DeliverTwice
    \/ \E h \in Handlers : HandlerCheck(h)
    \/ \E h \in Handlers : HandlerResolveSid(h)
    \/ \E h \in Handlers : HandlerStore(h)

SpecDuplicate == InitDuplicate /\ [][NextDuplicate]_vars

\* a delivery of the message in flight has been handled: the message is stored
DeliveryHandled ==
    \E i \in DOMAIN inbox_messages :
        /\ inbox_messages[i].direction = "inbound"
        /\ inbox_messages[i].raw_payload.MessageSid = fn_call.payload.MessageSid

OutboundMessages(messages) == {i \in DOMAIN messages : messages[i].direction = "outbound"}

\* C35: of two deliveries of one inbound message handled concurrently, only one
\* has an effect: once a delivery of the message is handled, a step of the
\* other handler advances no survey session, records no answer and sends no
\* automatic reply.
C35_DuplicateDeliveryHandledOnce ==
    [][\A h \in Handlers :
          /\ fn_call.handlers[h].pc \in {"received", "checked", "appending"}
          /\ fn_call'.handlers[h] # fn_call.handlers[h]
          /\ DeliveryHandled
          => /\ survey_sessions' = survey_sessions
             /\ survey_responses' = survey_responses
             /\ OutboundMessages(inbox_messages') = OutboundMessages(inbox_messages)]_vars


(***************************************************************************)
(* Specification SpecJobFair: the dispatch job with a queue that runs what *)
(* it holds.  A queued job is started, a started send_bulk goes on to its  *)
(* next recipient and to its return, and a job that raised with retries    *)
(* left is run again.                                                      *)
(***************************************************************************)
QueueRuns ==
    \/ \E has_job \in BOOLEAN : JobStart(has_job)
    \/ \E outcome \in ProviderOutcomes : JobSendMessage(outcome)
    \/ JobComplete
    \/ JobRetry

\* nobody has opted out; the provider is configured or its credentials are missing
InitJobFair ==
    /\ fn_call = NoFnCall
    /\ DispatchTables
    /\ unsubscribed = {}
    /\ pfd_call = NoPfdCall
    /\ \E twilio_configured \in BOOLEAN :
           config = Config(twilio_configured, Phone1, 0, TRUE)
    /\ IdleDispatch /\ IdleScheduler /\ IdleInbox

SpecJobFair == InitJobFair /\ [][NextJob]_vars /\ WF_vars(QueueRuns)

EnqueuedProcessing ==
    /\ job.pc = "queued"
    /\ message_logs[job.log_id].status = "processing"

BatchSettled ==
    /\ job.pc \in {"done", "raised"}
    /\ message_logs[job.log_id].status \in {"sent", "failed"}

\* C36: a batch stored in status processing whose job is enqueued eventually
\* reaches status sent or failed, the queue running every attempt to its end
\* and retrying a raised transient error at most three times.
C36_EnqueuedBatchSettles == EnqueuedProcessing ~> BatchSettled

\* the fourth attempt raised a transient error: no retry is left, the batch failed
C36_Witness ==
    /\ job.pc = "raised"
    /\ job.outcome = "transient"
    /\ job.has_job
    /\ job.retries_left = 0
    /\ message_logs[job.log_id].status = "failed"


(***************************************************************************)
(* Specification SpecConfigError: the scheduler of SpecSched started in    *)
(* the states where its configuration errors arise: the provider           *)
(* credentials or the test-mode number may be missing, and the community   *)
(* may have opted out as a whole.                                          *)
(***************************************************************************)
InitConfigError ==
    /\ fn_call = NoFnCall
    /\ unsubscribed \in {{}, {UnsubscribedRow(1, Phone1), UnsubscribedRow(2, Phone2)}}
    /\ suppressed = {}
    /\ community_members = {[phone |-> p, name |-> ""] : p \in {Phone1, Phone2}}
    /\ event_registrations = {[event_id |-> 1, phone |-> Phone1, name |-> ""]}
    /\ pfd_call = NoPfdCall
    /\ \E twilio_configured \in BOOLEAN, admin_test_phone \in {"", Phone3} :
           config = Config(twilio_configured, admin_test_phone, 5, TRUE)
    /\ IdleDispatch /\ IdleScheduler /\ IdleInbox

SpecConfigError == InitConfigError /\ [][NextSched]_vars

ConfigurationErrors == {ErrNoAdminPhone, ErrNoRecipients, ErrCredentials}

\* worker w holds a claimed message and meets a configuration error at its
\* next step: the test-mode number is not configured (line 135), the filtered
\* recipient list is empty (line 160), or get_twilio_service raises (line 170)
HitsConfigurationError(w) ==
    LET worker == workers[w]
        row == scheduled_messages[current_id(worker)]
    IN
    \/ /\ worker.pc = "resolve"
       /\ \/ row.test_mode /\ config.admin_test_phone = ""
          \/ ~row.test_mode /\ resolve_recipients(row.target, row.event_id, CurrentDb) = <<>>
    \/ /\ worker.pc = "send"
       /\ ~config.twilio_configured

FailedOnConfiguration(table, m) ==
    /\ table[m].status = "failed"
    /\ table[m].error_message \in ConfigurationErrors

SentTo(sends, m) == {i \in DOMAIN sends : sends[i].id = m}

\* C37: a claimed scheduled message that meets a configuration error is marked
\* failed with a non-empty descriptive error by the tick that claimed it, at
\* that step and without a provider send; no provider send is ever made for
\* it, and no later step claims it or sends it.
C37_ConfigurationErrorFailsOnce ==
    [][/\ \A w \in Workers :
            workers[w].pc \in {"resolve", "send"} /\ workers'[w] # workers[w]
                /\ HitsConfigurationError(w) =>
              LET m == current_id(workers[w]) IN
              /\ FailedOnConfiguration(scheduled_messages', m)
              /\ scheduled_messages'[m].error_message # ""
              /\ scheduled_messages'[m].sent_at = workers[w].now
              /\ bulk_sends' = bulk_sends
              /\ SentTo(bulk_sends', m) = {}
       /\ \A m \in DOMAIN scheduled_messages :
            FailedOnConfiguration(scheduled_messages, m) =>
              /\ scheduled_messages'[m].status # "processing"
              /\ SentTo(bulk_sends', m) = {}]_vars

\* a message failed for want of recipients, and a tick begun later is running
C37_Witness ==
    \E m \in DOMAIN scheduled_messages, w \in Workers :
        /\ FailedOnConfiguration(scheduled_messages, m)
        /\ scheduled_messages[m].error_message = ErrNoRecipients
        /\ workers[w].pc = "loop"
        /\ workers[w].now > scheduled_messages[m].sent_at


(* Claims about the stored reason of a scheduled message (under SpecSched) *)
\* C40: in every reachable state a scheduled message whose status is failed or
\* expired has a non-empty stored error message.
C40_FailedOrExpiredHasReason ==
    \A m \in DOMAIN scheduled_messages :
        scheduled_messages[m].status \in {"failed", "expired"} =>
            scheduled_messages[m].error_message # ""

\* one message was failed as timed out and the other has expired
C40_Witness ==
    \E m, k \in DOMAIN scheduled_messages :
        /\ scheduled_messages[m].status = "failed"
        /\ scheduled_messages[m].error_message = ErrTimedOut
        /\ scheduled_messages[k].status = "expired"
        /\ scheduled_messages[k].error_message = ErrExpired


(* Claims about the records of an attempt (checked under SpecJob) *)
\* the step ends an attempt of send_bulk_job that has called the provider
AttemptEnds ==
    /\ job.pc = "sending"
    /\ job'.pc \in {"done", "raised"}

\* the records the batch had when the attempt began, then one record for each
\* recipient the provider returned a result for during the attempt
AttemptRecords == job.existing_details \o job.results.details

\* C39: at the end of every attempt of send_bulk_job (normal completion,
\* transient abort or non-transient exception) the batch holds a record for
\* every recipient for which the provider returned a result during the attempt.
C39_AttemptResultsPersisted ==
    [][AttemptEnds =>
         LET stored == message_logs'[job.log_id].details IN
         /\ Len(stored) >= Len(AttemptRecords)
         /\ SubSeq(stored, 1, Len(AttemptRecords)) = AttemptRecords]_vars


(***************************************************************************)
(* Specification SpecStop: a batch sent from the dashboard to the          *)
(* community or an event, not in test mode, and its send_bulk_job with the *)
(* retries of the queue, while inbound STOP and START messages of the      *)
(* recipients are handled by the webhook.                                  *)
(***************************************************************************)
InitStop ==
    /\ fn_call = NoFnCall
    /\ DispatchTables
    /\ unsubscribed = {}
    /\ pfd_call = NoPfdCall
    /\ config = Config(TRUE, "", 0, TRUE)
    /\ IdleDispatch /\ IdleScheduler
    /\ inbox_threads = {} /\ inbox_messages = <<>>
    /\ survey_sessions = <<>> /\ survey_responses = <<>>
    /\ automation = Automation
    /\ inbound = NoInbound

StopBodies == {" stop", "start"}

StopDeliver ==
    /\ inbound.n < MaxCalls
    /\ \E raw_from \in RsvpFroms, body \in StopBodies :
           ProcessInboundSms(raw_from, body, inbound.n + 1,
                             [kind |-> "created", status |-> 201, msg |-> ""])

NextStop ==
    \/ \E target \in {"community", "event"}, event_id \in EventIds, enqueued \in BOOLEAN :
           DashboardSend(target, event_id, FALSE, enqueued)
    \/ \E has_job \in BOOLEAN : JobStart(has_job)
    \/ \E outcome \in ProviderOutcomes : JobSendMessage(outcome)
    \/ JobComplete
    \/ JobRetry
    \/ StopDeliver

SpecStop == InitStop /\ [][NextStop]_vars

\* the step hands a message for phone to the provider
ProviderSendTo(phone) ==
    /\ job.pc = "sending"
    /\ Len(job'.calls) = Len(job.calls) + 1
    /\ job'.calls[Len(job'.calls)] = phone

\* C38: once an inbound STOP of a phone has been handled and its unsubscribed
\* row committed, the dispatch job makes no provider send to that phone, in
\* its first attempt or in a retry, until a START of the phone is handled.
C38_NoSendAfterInboundStop ==
    [][\A phone \in Phones :
          ProviderSendTo(phone) => ~HasUnsubscribed(unsubscribed, phone)]_vars

====
